---------------------------- MODULE Spec2Model ----------------------------
(***************************************************************************)
(* kemono-scraper: the resilient download pipeline.                        *)
(*                                                                         *)
(*   proxyManager.ts        ProxyManager (round-robin pool with cooldown)  *)
(*   src/context.ts         buildProxyAxiosOptions, recordProxyOutcome     *)
(*   src/files.ts           blacklist store, temp-file sweep               *)
(*   src/download.ts        downloadFile, downloadFiles,                   *)
(*                          downloadAllWithRetries                         *)
(*   src/scraper.ts         scrapeCreator                                  *)
(*                                                                         *)
(*   posts API client       findWorkingApiHost, fetchPosts                 *)
(*                                                                         *)
(* Time is counted in abstract ticks.  SpecProxy is the proxy pool driven  *)
(* by its callers; Spec is one run of scrapeCreator from its download      *)
(* queue on, SpecFair the same with timers that fire and I/O that          *)
(* completes; SpecExists is downloadFile at its existence check; SpecPages *)
(* is the pagination loop of scrapeCreator.                                *)
(***************************************************************************)
EXTENDS Integers, Sequences, FiniteSets, TLC

(***************************************************************************)
(* Bounds of the model.                                                    *)
(***************************************************************************)
MaxProxies == 2
MaxCooldown == 1
MaxClock == 3
MaxConsec == 2
MaxReqs == 2
MaxCalls == 3
NTasks == 2
MaxZombies == 1

(***************************************************************************)
(* State.                                                                  *)
(***************************************************************************)
VARIABLES
  pmConfigured,        \* ctx.proxyManager is not null
  entries,             \* ProxyManager.entries: sequence of ProxyEntry
  currentIndex,        \* ProxyManager.currentIndex
  cooldownMs,          \* ProxyManager.cooldownMs
  proxyWarningIssued,  \* ctx.proxyWarningIssued
  now,                 \* Date.now()
  reqs,                \* requests issued through buildProxyAxiosOptions
  lastSel,             \* result of the latest getNextProxy call
  nCalls,              \* number of getNextProxy calls so far
  anyFailure,          \* some reportFailure was applied so far
  host,                \* the requested host; subdomains = getDomainConfig(host).subdomains
  maxConcurrentDownloads,  \* ctx.maxConcurrentDownloads
  pathOf,              \* file.path of each attachment found by pagination
  destOf,              \* its output path (outputDir/sanitizeFileName(file.name))
  faults,              \* what the server and the file system do to each attachment
  phase,               \* where scrapeCreator is
  passNumber,          \* downloadAllWithRetries: passNumber
  currentQueue,        \* downloadAllWithRetries: currentQueue
  pending,             \* downloadFiles: pushed to the AsyncQueue, not started yet
  failedDownloads,     \* downloadFiles: failedDownloads
  completedDownloads,  \* downloadFiles: completedDownloads
  tasks,               \* per queue entry: the state of its downloadFile promise
  zombies,             \* streams still running after Promise.race was settled by the timeout
  blacklist,           \* ctx.blacklist
  failureCounts,       \* ctx.failureCounts (0 = no entry)
  addedAtDates,        \* ctx.addedAtDates
  bfile,               \* content of blacklist.json
  writes,              \* fs.writeJson calls on blacklist.json that have not completed
  dest,                \* the file at each output path
  temp,                \* the file at each output path + '.downloading'
  outputPath,          \* the output path of each destination, a sequence of characters
  extra,               \* the other paths that exist on disk (compressed siblings)
  maxPosts,            \* ctx.maxPosts
  serverKind,          \* what the API server may answer: steady | any
  offset,              \* scrapeCreator: offset
  posts,               \* scrapeCreator: posts.length; seenPostIds is 1 .. posts
  pages,               \* calls of fetchPosts made by the pagination loop
  stop,                \* why the pagination loop was left ("" while it runs)
  workingApiHost,      \* ctx.workingApiHost is set
  probeRetries,        \* findWorkingApiHost: retries
  fetchRetries,        \* fetchPosts: retries
  spin,                \* flips at every turn of findWorkingApiHost's loop that changes nothing
  pgpc,                \* idle | call | probe | get | over
  attached,            \* the attachments of the collected posts
  blAtBuild            \* ctx.blacklist when the download queue was built

pxVars == <<pmConfigured, entries, currentIndex, cooldownMs, proxyWarningIssued,
            now, reqs, lastSel, nCalls, anyFailure>>

pgVars == <<maxPosts, serverKind, offset, posts, pages, stop, workingApiHost, probeRetries,
            fetchRetries, spin, pgpc, attached>>

plVars == <<host, maxConcurrentDownloads, pathOf, destOf, faults, outputPath, extra, pgVars, phase, passNumber, currentQueue,
            pending, failedDownloads, completedDownloads, tasks, zombies, blacklist,
            failureCounts, addedAtDates, bfile, writes, dest, temp, blAtBuild>>

vars == <<pxVars, plVars>>

Null == -1      \* getNextProxy's null; proxy ids are 0 .. N-1 ("proxy-<index>")

ReqIds == 1 .. MaxReqs

IdleReq == [st |-> "idle", sel |-> Null, agent |-> FALSE]

(***************************************************************************)
(* proxyManager.ts                                                         *)
(***************************************************************************)
size == Len(entries)

\* constructor: every entry starts healthy
NewEntry == [cooldownUntil |-> 0, consecutiveFailures |-> 0]

Available(e, t) == e.cooldownUntil <= t

hasAvailableProxy == \E i \in 1 .. size : Available(entries[i], now)

getAvailability ==
  [total |-> size,
   available |-> Cardinality({i \in 1 .. size : Available(entries[i], now)})]

\* the candidate index visited at loop step i (0-based, as in the source)
CandidateAt(i) == (currentIndex + i) % size

\* a loop that skips nothing
Eligible_All == 0 .. size - 1

\* loop steps whose candidate is not skipped
Eligible == {i \in 0 .. size - 1 : ~(entries[CandidateAt(i) + 1].cooldownUntil > now)}

FirstEligible == CHOOSE i \in Eligible : \A j \in Eligible : i <= j

\* getNextProxy with a cursor that stays on the chosen entry
getNextProxy_Stay ==
  IF size = 0 THEN [sel |-> Null, idx |-> currentIndex]
  ELSE IF Eligible = {} THEN [sel |-> Null, idx |-> currentIndex]
  ELSE [sel |-> CandidateAt(FirstEligible), idx |-> CandidateAt(FirstEligible)]

\* getNextProxy: [sel |-> id or Null, idx |-> the cursor afterwards]
getNextProxy ==
  IF size = 0 THEN [sel |-> Null, idx |-> currentIndex]
  ELSE IF Eligible = {} THEN [sel |-> Null, idx |-> currentIndex]
  ELSE [sel |-> CandidateAt(FirstEligible),
        idx |-> (CandidateAt(FirstEligible) + 1) % size]

\* reportFailure(proxyId): entries afterwards
reportFailure(id) ==
  IF id \in 0 .. size - 1
  THEN [entries EXCEPT ![id + 1] =
          [cooldownUntil |-> now + cooldownMs,
           consecutiveFailures |-> @.consecutiveFailures + 1]]
  ELSE entries

\* a reportSuccess that resets the failure count and keeps the cooldown
reportSuccess_CountOnly(id) ==
  IF id \in 0 .. size - 1
  THEN [entries EXCEPT ![id + 1] = [@ EXCEPT !.consecutiveFailures = 0]]
  ELSE entries

\* reportSuccess(proxyId): entries afterwards
reportSuccess(id) ==
  IF id \in 0 .. size - 1
  THEN [entries EXCEPT ![id + 1] = [cooldownUntil |-> 0, consecutiveFailures |-> 0]]
  ELSE entries

(***************************************************************************)
(* src/constants.ts, src/context.ts                                        *)
(***************************************************************************)
PROXY_FAILURE_CODES == {"ECONNREFUSED", "ECONNRESET", "ETIMEDOUT", "EHOSTUNREACH", "ENETUNREACH"}

\* Errors are records [axios, code, status]; status 0 = no response,
\* NoError = the request succeeded.
NoError == [axios |-> FALSE, code |-> "", status |-> -1, timeoutMsg |-> FALSE]

AxiosCodeErrors ==
  {[axios |-> TRUE, code |-> c, status |-> 0, timeoutMsg |-> FALSE] :
     c \in PROXY_FAILURE_CODES \cup {"ECONNABORTED", "ERR_CANCELED"}}

AxiosStatusErrors ==
  {[axios |-> TRUE, code |-> "ERR_BAD_RESPONSE", status |-> s, timeoutMsg |-> FALSE] : s \in {500, 503}}
    \cup {[axios |-> TRUE, code |-> "ERR_BAD_REQUEST", status |-> s, timeoutMsg |-> FALSE] :
            s \in {404, 407, 429}}

\* an error that is not an AxiosError; timeoutMsg = its message contains
\* 'timeout' or 'stalled'
LocalErrors == {[axios |-> FALSE, code |-> "EACCES", status |-> 0, timeoutMsg |-> m] : m \in BOOLEAN}

Errors == AxiosCodeErrors \cup AxiosStatusErrors \cup LocalErrors

\* the errors the environment is made to produce in SpecProxyReq
SampleErrors ==
  {e \in Errors : e.code \in {"ECONNREFUSED", "ECONNABORTED", "EACCES"} \/ e.status \in {500, 407}}

shouldCooldownProxy(error) ==
  IF error = NoError THEN FALSE
  ELSE IF ~error.axios THEN TRUE
  ELSE IF error.status = 0 THEN error.code \in PROXY_FAILURE_CODES
  ELSE error.status = 407

\* buildProxyAxiosOptions that keeps the agents of the entry under the cursor
\* when no proxy was selected
buildProxyAxiosOptions_Agent ==
  IF ~pmConfigured \/ size = 0
  THEN [selection |-> Null, agent |-> FALSE, idx |-> currentIndex,
        warned |-> proxyWarningIssued, asked |-> FALSE]
  ELSE [selection |-> getNextProxy.sel, agent |-> TRUE, idx |-> getNextProxy.idx,
        warned |-> (getNextProxy.sel = Null), asked |-> TRUE]

\* buildProxyAxiosOptions: [selection, agent (options carry proxy agents),
\*                          idx, warned (ctx.proxyWarningIssued afterwards),
\*                          asked (getNextProxy was called)]
buildProxyAxiosOptions ==
  IF ~pmConfigured \/ size = 0
  THEN [selection |-> Null, agent |-> FALSE, idx |-> currentIndex,
        warned |-> proxyWarningIssued, asked |-> FALSE]
  ELSE IF getNextProxy.sel = Null
  THEN [selection |-> Null, agent |-> FALSE, idx |-> getNextProxy.idx,
        warned |-> TRUE, asked |-> TRUE]
  ELSE [selection |-> getNextProxy.sel, agent |-> TRUE, idx |-> getNextProxy.idx,
        warned |-> FALSE, asked |-> TRUE]

\* recordProxyOutcome(ctx, selection, error): entries afterwards
recordProxyOutcome(selection, error) ==
  IF selection = Null \/ ~pmConfigured THEN entries
  ELSE IF error # NoError /\ shouldCooldownProxy(error) THEN reportFailure(selection)
  ELSE IF error = NoError THEN reportSuccess(selection)
  ELSE entries

(***************************************************************************)
(* src/constants.ts                                                        *)
(***************************************************************************)
MAX_DOWNLOAD_RETRIES == 3
MAX_FAILURES_BEFORE_BLACKLIST == 5
MAX_RETRY_PASSES == 3
BLACKLIST_EXPIRY_MS == 2    \* the expiry window (2 days), in ticks

(***************************************************************************)
(* src/context.ts: getDomainConfig                                         *)
(***************************************************************************)
Hosts == {"kemono.su", "coomer.su", "kemono.cr", "coomer.st"}

getDomainConfig(h) ==
  [baseDomain |-> IF h \in {"kemono.su", "coomer.su"} THEN h
                  ELSE IF h = "kemono.cr" THEN "kemono.cr" ELSE "coomer.st",
   subdomains |-> IF h = "kemono.su" THEN <<"c1">>
                  ELSE IF h = "coomer.su" THEN <<"c5", "c6">>
                  ELSE <<"n1", "n2", "n3", "n4">>]

subdomains == getDomainConfig(host).subdomains

(***************************************************************************)
(* Queue entries, paths and files.                                         *)
(***************************************************************************)
Tasks == 1 .. NTasks
Paths == 1 .. NTasks      \* remote paths (file.path)
Dests == 1 .. NTasks      \* output paths
NoDate == -100            \* addedAtDates has no entry
NoOwner == <<0, 0>>        \* no stream: the path does not exist
Prior == <<0, 1>>          \* an earlier run wrote the file
NoFile == [owner |-> NoOwner, content |-> "none"]
Main == 0                 \* the owner of a write awaited by scrapeCreator itself
Detached == -1            \* the owner of a write nobody awaits any more

\* the stream of task t's attempt in pass k
StreamId(t, k) == <<t, k>>

File(owner, content) == [owner |-> owner, content |-> content]

(***************************************************************************)
(* src/files.ts: the blacklist store                                       *)
(***************************************************************************)
Entry(p, fc, at) == [filePath |-> p, failureCount |-> fc, addedAt |-> at]

\* a saveBlacklist that stamps every entry with the time of the save
saveBlacklist_Restamp(bl, fc, dates) ==
  {Entry(p,
         IF fc[p] # 0 THEN fc[p] ELSE MAX_FAILURES_BEFORE_BLACKLIST,
         now) : p \in bl}

\* saveBlacklist: the entries handed to fs.writeJson
saveBlacklist(bl, fc, dates) ==
  {Entry(p,
         IF fc[p] # 0 THEN fc[p] ELSE MAX_FAILURES_BEFORE_BLACKLIST,
         IF dates[p] # NoDate THEN dates[p] ELSE now) : p \in bl}

\* an expiry test that never drops an entry
Expired_Never(e) == FALSE

\* loadBlacklist: the in-memory store after reading `data`; an entry without
\* addedAt never expires
Expired(e) == e.addedAt # NoDate /\ now - e.addedAt > BLACKLIST_EXPIRY_MS

Kept(data) == {e \in data : ~Expired(e)}

loadBlacklist(data) ==
  [blacklist |-> {e.filePath : e \in Kept(data)},
   failureCounts |-> [p \in Paths |->
      IF \E e \in Kept(data) : e.filePath = p
      THEN (CHOOSE e \in Kept(data) : e.filePath = p).failureCount ELSE 0],
   addedAtDates |-> [p \in Paths |->
      IF \E e \in Kept(data) : e.filePath = p
      THEN (CHOOSE e \in Kept(data) : e.filePath = p).addedAt ELSE NoDate],
   expiredCount |-> Cardinality(data \ Kept(data))]

\* an addToBlacklist that starts the set afresh
addToBlacklist_Replace(st, p) ==
  IF p \notin st.blacklist
  THEN [blacklist |-> {p},
        failureCounts |-> [st.failureCounts EXCEPT ![p] = MAX_FAILURES_BEFORE_BLACKLIST],
        addedAtDates |-> [st.addedAtDates EXCEPT ![p] = now],
        saved |-> TRUE]
  ELSE st

\* addToBlacklist(ctx, filePath): the store afterwards; saved = saveBlacklist was called
addToBlacklist(st, p) ==
  IF p \notin st.blacklist
  THEN [blacklist |-> st.blacklist \cup {p},
        failureCounts |-> [st.failureCounts EXCEPT ![p] = MAX_FAILURES_BEFORE_BLACKLIST],
        addedAtDates |-> [st.addedAtDates EXCEPT ![p] = now],
        saved |-> TRUE]
  ELSE st

\* recordFailure that promotes one failure early
recordFailure_Early(st, p) ==
  LET newCount == st.failureCounts[p] + 1
      counted == [st EXCEPT !.failureCounts[p] = newCount]
  IN IF newCount >= MAX_FAILURES_BEFORE_BLACKLIST - 1 THEN addToBlacklist(counted, p)
     ELSE counted

\* recordFailure(ctx, filePath): the store afterwards
recordFailure(st, p) ==
  LET newCount == st.failureCounts[p] + 1
      counted == [st EXCEPT !.failureCounts[p] = newCount]
  IN IF newCount >= MAX_FAILURES_BEFORE_BLACKLIST THEN addToBlacklist(counted, p)
     ELSE counted

\* the store as it is now, before an operation
Store == [blacklist |-> blacklist, failureCounts |-> failureCounts,
          addedAtDates |-> addedAtDates, saved |-> FALSE]

\* the store is replaced by st; a save that was started is a write awaited by `by`
SetStore(st, by) ==
  /\ blacklist' = st.blacklist
  /\ failureCounts' = st.failureCounts
  /\ addedAtDates' = st.addedAtDates
  /\ writes' = IF st.saved
               THEN writes \cup {[by |-> by,
                                  snap |-> saveBlacklist(st.blacklist, st.failureCounts,
                                                         st.addedAtDates)]}
               ELSE writes

\* cleanupTempFiles(directory): every '*.downloading' file is removed
cleanupTempFiles(tmp) == [d \in DOMAIN tmp |-> NoFile]

\* String.prototype.toLowerCase on the letters that occur in the paths
LowerCase ==
  ("J" :> "j") @@ ("P" :> "p") @@ ("G" :> "g") @@ ("E" :> "e") @@ ("M" :> "m") @@
  ("K" :> "k") @@ ("V" :> "v") @@ ("X" :> "x") @@ ("L" :> "l") @@ ("A" :> "a")

toLowerCase(str) ==
  [i \in 1 .. Len(str) |-> IF str[i] \in DOMAIN LowerCase THEN LowerCase[str[i]] ELSE str[i]]

Largest(S) == CHOOSE i \in S : \A j \in S : j <= i

\* path.extname(p): from the last '.' of the last segment of p to the end;
\* empty when the segment has no '.', starts with its last '.', or is '..'
extname(p) ==
  LET slashes == {i \in 1 .. Len(p) : p[i] = "/"}
      startPart == IF slashes = {} THEN 1 ELSE Largest(slashes) + 1
      dots == {i \in startPart .. Len(p) : p[i] = "."}
  IN IF dots = {} THEN <<>>
     ELSE LET startDot == Largest(dots)
          IN IF startDot = startPart THEN <<>>
             ELSE IF startDot = Len(p) /\ startDot = startPart + 1 /\ p[startPart] = "."
             THEN <<>>
             ELSE SubSeq(p, startDot, Len(p))

\* filePath.slice(0, -n): slice(0, -0) is slice(0, 0), the empty string
sliceOff(str, n) == IF n = 0 THEN <<>> ELSE SubSeq(str, 1, Len(str) - n)

Jxl == <<".", "j", "x", "l">>
Av1Mp4 == <<"_", "a", "v", "1", ".", "m", "p", "4">>

\* fileExistsOrCompressed without toLowerCase
fileExistsOrCompressed_CaseSensitive(filePath, disk) ==
  LET ext == extname(filePath)
      basePath == sliceOff(filePath, Len(ext))
  IN \/ filePath \in disk
     \/ ext \in {<<".", "j", "p", "g">>, <<".", "j", "p", "e", "g">>} /\ basePath \o Jxl \in disk
     \/ ext \in {<<".", "m", "p", "4">>, <<".", "m", "k", "v">>} /\ basePath \o Av1Mp4 \in disk

\* fileExistsOrCompressed(filePath), disk being the paths for which
\* fs.pathExists is true
fileExistsOrCompressed(filePath, disk) ==
  LET ext == toLowerCase(extname(filePath))
      basePath == sliceOff(filePath, Len(ext))
  IN \/ filePath \in disk
     \/ ext \in {<<".", "j", "p", "g">>, <<".", "j", "p", "e", "g">>} /\ basePath \o Jxl \in disk
     \/ ext \in {<<".", "m", "p", "4">>, <<".", "m", "k", "v">>} /\ basePath \o Av1Mp4 \in disk

\* the paths that exist in the output directory
Disk == {outputPath[d] : d \in {x \in Dests : dest[x] # NoFile}} \cup extra

(***************************************************************************)
(* src/download.ts: downloadFile                                           *)
(*                                                                         *)
(* A task is the promise of one queue entry in the current pass:           *)
(*   pc       none | queued | prepare | request | stream | copying | hung  *)
(*            | saving | wait | resolved | rejected                        *)
(*   retries, cdn   the arguments of the running invocation                *)
(*   sel      proxySelection of the request in flight                      *)
(*   hasLen   expectedSize !== null                                        *)
(*   after    what follows the awaited blacklist write (pc = saving)       *)
(*   msg      how the promise was resolved                                 *)
(*   gate     ctx.blacklist.has(filePath) as the latest invocation saw it  *)
(*   io       the latest invocation asked for a proxy and issued a request *)
(***************************************************************************)
NewTask(pc) ==
  [pc |-> pc, retries |-> 0, cdn |-> 0, sel |-> Null, hasLen |-> FALSE, after |-> "",
   msg |-> "", gate |-> FALSE, io |-> FALSE]

Resolved(msg, io) == [NewTask("resolved") EXCEPT !.msg = msg, !.io = io]

Rejected == [NewTask("rejected") EXCEPT !.io = TRUE]

ActivePc == {"prepare", "request", "stream", "copying", "hung", "saving", "wait"}

Running == {t \in Tasks : tasks[t].pc \in ActivePc}

\* downloadFile without the blacklist gate
Enter_NoGate(t, r, c, bl) == [NewTask("prepare") EXCEPT !.retries = r, !.cdn = c]

\* downloadFile(ctx, entry, r, c) up to its first await: the blacklist gate
Enter(t, r, c, bl) ==
  IF pathOf[t] \in bl
  THEN [Resolved("skipped", FALSE) EXCEPT !.gate = TRUE]
  ELSE [NewTask("prepare") EXCEPT !.retries = r, !.cdn = c]

\* the host of downloadUrl for cdnSubdomainIndex c: the CDN subdomain, or
\* the base domain once c is past the last subdomain
downloadHost(c) == IF c < Len(subdomains) THEN subdomains[c + 1] ELSE "base"

\* what follows a failed attempt: k is enter | wait | reject | done500
Cont(t, k, r, c, bl) ==
  CASE k = "enter" -> Enter(t, r, c, bl)
    [] k = "wait" -> [NewTask("wait") EXCEPT !.retries = r, !.cdn = c, !.io = TRUE]
    [] k = "done500" -> Resolved("blacklisted500", TRUE)
    [] OTHER -> Rejected

\* then/catch handlers that do not list a rejected task
UpdateTask_DropFailed(t, nt) ==
  /\ tasks' = [tasks EXCEPT ![t] = nt]
  /\ completedDownloads' = IF nt.pc = "resolved" THEN completedDownloads + 1
                           ELSE completedDownloads
  /\ failedDownloads' = failedDownloads

\* then/catch handlers that count a rejected task as completed, too
UpdateTask_CountAll(t, nt) ==
  /\ tasks' = [tasks EXCEPT ![t] = nt]
  /\ completedDownloads' = IF nt.pc \in {"resolved", "rejected"} THEN completedDownloads + 1
                           ELSE completedDownloads
  /\ failedDownloads' = IF nt.pc = "rejected" THEN Append(failedDownloads, t)
                        ELSE failedDownloads

\* the promise of t becomes nt; downloadFiles' then/catch count it
UpdateTask(t, nt) ==
  /\ tasks' = [tasks EXCEPT ![t] = nt]
  /\ completedDownloads' = IF nt.pc = "resolved" THEN completedDownloads + 1
                           ELSE completedDownloads
  /\ failedDownloads' = IF nt.pc = "rejected" THEN Append(failedDownloads, t)
                        ELSE failedDownloads

\* a failure handler ends with store st: when a save was started the
\* continuation (k, r, c) waits for the write
AfterStore(t, st, k, r, c) ==
  IF st.saved
  THEN [NewTask("saving") EXCEPT !.after = k, !.retries = r, !.cdn = c, !.io = TRUE]
  ELSE Cont(t, k, r, c, st.blacklist)

ConnectionCodes == {"ECONNRESET", "ECONNABORTED", "ETIMEDOUT", "ERR_CANCELED"}

\* a catch block that treats status 500 like any other HTTP error
Catch_Retry500(e, r, c) ==
  LET n == Len(subdomains)
  IN IF c < n - 1 THEN [fail |-> FALSE, bl500 |-> FALSE, k |-> "enter", r |-> r, c |-> c + 1]
     ELSE IF r < MAX_DOWNLOAD_RETRIES
     THEN [fail |-> FALSE, bl500 |-> FALSE, k |-> "wait", r |-> r + 1, c |-> 0]
     ELSE [fail |-> TRUE, bl500 |-> FALSE, k |-> "reject", r |-> r, c |-> c]

\* a catch block that never moves on to the next CDN subdomain
Catch_NoFailover(e, r, c) ==
  LET retry == [fail |-> FALSE, bl500 |-> FALSE, k |-> "wait", r |-> r + 1, c |-> 0]
      throw == [fail |-> TRUE, bl500 |-> FALSE, k |-> "reject", r |-> r, c |-> c]
  IN IF e.axios
     THEN IF e.code \in ConnectionCodes
          THEN IF r < MAX_DOWNLOAD_RETRIES THEN [retry EXCEPT !.fail = TRUE] ELSE throw
          ELSE IF e.status = 500
          THEN [fail |-> FALSE, bl500 |-> TRUE, k |-> "done500", r |-> r, c |-> c]
          ELSE IF r < MAX_DOWNLOAD_RETRIES THEN retry
          ELSE throw
     ELSE IF e.timeoutMsg /\ r < MAX_DOWNLOAD_RETRIES THEN [retry EXCEPT !.fail = TRUE]
     ELSE throw

\* a catch block that records a failure for every HTTP error
Catch_HttpCounts(e, r, c) ==
  LET n == Len(subdomains)
      retry == [fail |-> TRUE, bl500 |-> FALSE, k |-> "wait", r |-> r + 1, c |-> 0]
      next == [fail |-> TRUE, bl500 |-> FALSE, k |-> "enter", r |-> r, c |-> c + 1]
      throw == [fail |-> TRUE, bl500 |-> FALSE, k |-> "reject", r |-> r, c |-> c]
  IN IF e.axios
     THEN IF e.code \in ConnectionCodes
          THEN IF r < MAX_DOWNLOAD_RETRIES
               THEN IF c < n - 1 THEN next ELSE retry
               ELSE throw
          ELSE IF e.status = 500
          THEN [fail |-> FALSE, bl500 |-> TRUE, k |-> "done500", r |-> r, c |-> c]
          ELSE IF c < n - 1 THEN next
          ELSE IF r < MAX_DOWNLOAD_RETRIES THEN retry
          ELSE throw
     ELSE IF e.timeoutMsg /\ r < MAX_DOWNLOAD_RETRIES THEN retry
     ELSE throw

\* a catch block that retries HTTP errors without a ceiling
Catch_NoCeiling(e, r, c) ==
  LET n == Len(subdomains)
      retry == [fail |-> FALSE, bl500 |-> FALSE, k |-> "wait", r |-> r + 1, c |-> 0]
      next == [fail |-> FALSE, bl500 |-> FALSE, k |-> "enter", r |-> r, c |-> c + 1]
      throw == [fail |-> TRUE, bl500 |-> FALSE, k |-> "reject", r |-> r, c |-> c]
  IN IF e.axios
     THEN IF e.code \in ConnectionCodes
          THEN IF r < MAX_DOWNLOAD_RETRIES
               THEN IF c < n - 1 THEN [next EXCEPT !.fail = TRUE]
                    ELSE [retry EXCEPT !.fail = TRUE]
               ELSE throw
          ELSE IF e.status = 500
          THEN [fail |-> FALSE, bl500 |-> TRUE, k |-> "done500", r |-> r, c |-> c]
          ELSE IF c < n - 1 THEN next
          ELSE retry
     ELSE IF e.timeoutMsg /\ r < MAX_DOWNLOAD_RETRIES THEN [retry EXCEPT !.fail = TRUE]
     ELSE throw

\* the catch block of downloadFile: fail = recordFailure is called,
\* bl500 = addToBlacklist is called, then continuation k with (r, c)
Catch(e, r, c) ==
  LET n == Len(subdomains)
      retry == [fail |-> FALSE, bl500 |-> FALSE,
                k |-> "wait", r |-> r + 1, c |-> 0]
      next == [fail |-> FALSE, bl500 |-> FALSE, k |-> "enter", r |-> r, c |-> c + 1]
      throw == [fail |-> TRUE, bl500 |-> FALSE, k |-> "reject", r |-> r, c |-> c]
  IN IF e.axios
     THEN IF e.code \in ConnectionCodes
          THEN IF r < MAX_DOWNLOAD_RETRIES
               THEN IF c < n - 1 THEN [next EXCEPT !.fail = TRUE]
                    ELSE [retry EXCEPT !.fail = TRUE]
               ELSE throw
          ELSE IF e.status = 500
          THEN [fail |-> FALSE, bl500 |-> TRUE, k |-> "done500", r |-> r, c |-> c]
          ELSE IF c < n - 1 THEN next
          ELSE IF r < MAX_DOWNLOAD_RETRIES THEN retry
          ELSE throw
     ELSE IF e.timeoutMsg /\ r < MAX_DOWNLOAD_RETRIES THEN [retry EXCEPT !.fail = TRUE]
     ELSE throw

\* safeReject: the temp path is removed and one failure is recorded
safeReject(d, p) ==
  [temp |-> [temp EXCEPT ![d] = NoFile], dest |-> dest, store |-> recordFailure(Store, p),
   out |-> "reject"]

\* the bytes of stream sid are where its writer's file is; c is their final state
Seal(fs, sid, c) ==
  [d \in DOMAIN fs |-> IF fs[d].owner = sid THEN File(sid, c) ELSE fs[d]]

\* a 'finish' handler that verifies nothing
finish_Unverified(sid, d, p, hasLen, o) ==
  LET tmp == Seal(temp, sid, IF o = "premature" THEN "partial" ELSE IF o = "short" THEN "short"
                             ELSE "complete")
  IN [temp |-> [tmp EXCEPT ![d] = NoFile], dest |-> [dest EXCEPT ![d] = tmp[d]],
      store |-> Store, out |-> "resolve"]

\* writer 'finish' of stream sid (destination d, path p).  o is what happened:
\*   premature  the writer finished before the response emitted 'end'
\*   short      'end' was emitted, the bytes written differ from content-length
\*   ok         'end' was emitted with all bytes, fs.rename succeeds if it can
\*   renamefail as ok, but fs.rename throws
finish(sid, d, p, hasLen, o) ==
  LET final == IF o = "premature" THEN "partial" ELSE IF o = "short" THEN "short"
               ELSE "complete"
      tmp == Seal(temp, sid, final)
      dst == Seal(dest, sid, final)
      f == tmp[d]
  IN IF o = "premature" \/ (hasLen /\ f # NoFile /\ f.content # "complete")
     THEN [temp |-> [tmp EXCEPT ![d] = NoFile], dest |-> dst,
           store |-> recordFailure(Store, p), out |-> "reject"]
     ELSE IF f = NoFile
     THEN [temp |-> tmp, dest |-> dst, store |-> Store, out |-> "hung"]
     ELSE IF o = "ok"
     THEN [temp |-> [tmp EXCEPT ![d] = NoFile], dest |-> [dst EXCEPT ![d] = f],
           store |-> Store, out |-> "resolve"]
     ELSE [temp |-> tmp,
           dest |-> [dst EXCEPT ![d] =
                       File(sid, IF f.content = "complete" THEN "copyingC" ELSE "copyingP")],
           store |-> Store, out |-> "copying"]

\* the end of fs.copy(tempPath, outputPath) and of fs.remove(tempPath)
copyEnd(d, ok) ==
  IF ok
  THEN [temp |-> [temp EXCEPT ![d] = NoFile],
        dest |-> [dest EXCEPT ![d] =
                    IF @.content = "copyingC" THEN File(@.owner, "complete")
                    ELSE IF @.content = "copyingP" THEN File(@.owner, "torn") ELSE @],
        store |-> Store, out |-> "resolve"]
  ELSE [temp |-> temp,
        dest |-> [dest EXCEPT ![d] =
                    IF @.content \in {"copyingC", "copyingP"} THEN File(@.owner, "torn")
                    ELSE @],
        store |-> Store, out |-> "hung"]

\* the task record after a stream handler ended with result x
AfterStream(t, x) ==
  CASE x.out = "reject" -> AfterStore(t, x.store, "reject", 0, 0)
    [] x.out = "resolve" -> Resolved("downloaded", TRUE)
    [] x.out = "copying" -> [tasks[t] EXCEPT !.pc = "copying"]
    [] OTHER -> [tasks[t] EXCEPT !.pc = "hung"]

\* the fault an error of axios.get stands for
FaultOf(e) ==
  IF ~e.axios THEN (IF e.timeoutMsg THEN "localtimeout" ELSE "local")
  ELSE IF e.status = 500 THEN "500"
  ELSE IF e.status # 0 THEN "http"
  ELSE IF e.code = "ECONNRESET" THEN "conn" ELSE "abort"

proxyUnchanged == UNCHANGED <<pmConfigured, entries, currentIndex, cooldownMs,
                              proxyWarningIssued, now, reqs, lastSel, nCalls, anyFailure>>

cfgVars == <<host, maxConcurrentDownloads, pathOf, destOf, faults, outputPath, extra, pgVars>>

configUnchanged == UNCHANGED <<cfgVars, blAtBuild>>

\* a queue that starts every entry at once
Start_NoLimit(t) ==
  /\ phase = "pass"
  /\ pending # <<>>
  /\ t = Head(pending)
  /\ pending' = Tail(pending)
  /\ UpdateTask(t, Enter(t, 0, 0, blacklist))
  /\ UNCHANGED <<phase, passNumber, currentQueue, zombies, blacklist, failureCounts,
                 addedAtDates, bfile, writes, dest, temp>>
  /\ proxyUnchanged /\ configUnchanged

\* the AsyncQueue starts the next entry when a slot is free
Start(t) ==
  /\ phase = "pass"
  /\ pending # <<>>
  /\ t = Head(pending)
  /\ Cardinality(Running) < maxConcurrentDownloads
  /\ pending' = Tail(pending)
  /\ UpdateTask(t, Enter(t, 0, 0, blacklist))
  /\ UNCHANGED <<phase, passNumber, currentQueue, zombies, blacklist, failureCounts,
                 addedAtDates, bfile, writes, dest, temp>>
  /\ proxyUnchanged /\ configUnchanged

\* downloadFile without its existence check
Prepare_NoCheck(t) ==
  /\ tasks[t].pc = "prepare"
  /\ temp' = [temp EXCEPT ![destOf[t]] = NoFile]
  /\ currentIndex' = buildProxyAxiosOptions.idx
  /\ proxyWarningIssued' = buildProxyAxiosOptions.warned
  /\ UpdateTask(t, [tasks[t] EXCEPT !.pc = "request", !.io = TRUE,
                                    !.sel = buildProxyAxiosOptions.selection])
  /\ UNCHANGED <<phase, passNumber, currentQueue, pending, zombies, blacklist,
                 failureCounts, addedAtDates, bfile, writes, dest>>
  /\ UNCHANGED <<pmConfigured, entries, cooldownMs, now, reqs, lastSel, nCalls, anyFailure>>
  /\ configUnchanged

\* the existence check; then the temp path is cleared, a proxy is chosen and
\* the request is issued
Prepare(t) ==
  /\ tasks[t].pc = "prepare"
  /\ IF fileExistsOrCompressed(outputPath[destOf[t]], Disk)
     THEN /\ UpdateTask(t, Resolved("exists", FALSE))
          /\ UNCHANGED <<temp, currentIndex, proxyWarningIssued>>
     ELSE /\ temp' = [temp EXCEPT ![destOf[t]] = NoFile]
          /\ currentIndex' = buildProxyAxiosOptions.idx
          /\ proxyWarningIssued' = buildProxyAxiosOptions.warned
          /\ UpdateTask(t, [tasks[t] EXCEPT !.pc = "request", !.io = TRUE,
                                            !.sel = buildProxyAxiosOptions.selection])
  /\ UNCHANGED <<phase, passNumber, currentQueue, pending, zombies, blacklist,
                 failureCounts, addedAtDates, bfile, writes, dest>>
  /\ UNCHANGED <<pmConfigured, entries, cooldownMs, now, reqs, lastSel, nCalls, anyFailure>>
  /\ configUnchanged

\* axios.get settles: with a 2xx response (len = it carries content-length)
\* or with error e
Response(t, e, len) ==
  /\ tasks[t].pc = "request"
  /\ e # NoError => FaultOf(e) \in faults[t]
  /\ e = NoError => len = ("nolen" \notin faults[t])
  /\ entries' = recordProxyOutcome(tasks[t].sel, e)
  /\ IF e = NoError
     THEN /\ temp' = [temp EXCEPT ![destOf[t]] = File(StreamId(t, passNumber), "partial")]
          /\ UpdateTask(t, [tasks[t] EXCEPT !.pc = "stream", !.sel = Null, !.hasLen = len])
          /\ UNCHANGED <<blacklist, failureCounts, addedAtDates, writes>>
     ELSE LET x == Catch(e, tasks[t].retries, tasks[t].cdn)
              st == IF x.fail THEN recordFailure(Store, pathOf[t])
                    ELSE IF x.bl500 THEN addToBlacklist(Store, pathOf[t])
                    ELSE Store
          IN /\ len = FALSE
             /\ temp' = [temp EXCEPT ![destOf[t]] = NoFile]
             /\ SetStore(st, t)
             /\ UpdateTask(t, AfterStore(t, st, x.k, x.r, x.c))
  /\ UNCHANGED <<phase, passNumber, currentQueue, pending, zombies, bfile, dest>>
  /\ UNCHANGED <<pmConfigured, currentIndex, cooldownMs, proxyWarningIssued, now, reqs,
                 lastSel, nCalls, anyFailure>>
  /\ configUnchanged

\* the inter-retry delay is over: downloadFile(ctx, entry, retries + 1, 0)
WaitDone(t) ==
  /\ tasks[t].pc = "wait"
  /\ UpdateTask(t, Enter(t, tasks[t].retries, tasks[t].cdn, blacklist))
  /\ UNCHANGED <<phase, passNumber, currentQueue, pending, zombies, blacklist,
                 failureCounts, addedAtDates, bfile, writes, dest, temp>>
  /\ proxyUnchanged /\ configUnchanged

\* a stream handler of task t's attempt ends with result x
StreamStep(t, x) ==
  /\ temp' = x.temp
  /\ dest' = x.dest
  /\ SetStore(x.store, t)
  /\ UpdateTask(t, AfterStream(t, x))
  /\ UNCHANGED <<phase, passNumber, currentQueue, pending, zombies, bfile>>
  /\ proxyUnchanged /\ configUnchanged

\* writer 'finish'
Finish(t, o) ==
  /\ tasks[t].pc = "stream"
  /\ o # "ok" => o \in faults[t]
  /\ o = "short" => tasks[t].hasLen
  /\ StreamStep(t, finish(StreamId(t, passNumber), destOf[t], pathOf[t], tasks[t].hasLen, o))

\* response 'error', writer 'error', or the stall check finds no data for 60 s
StreamFail(t) ==
  /\ tasks[t].pc = "stream"
  /\ "streamfail" \in faults[t]
  /\ StreamStep(t, safeReject(destOf[t], pathOf[t]))

\* the copy fallback ends
CopyEnd(t, ok) ==
  /\ tasks[t].pc = "copying"
  /\ ~ok => "copyfail" \in faults[t]
  /\ StreamStep(t, copyEnd(destOf[t], ok))

\* a timeout that settles nothing once the stream handlers have given up
Timeout_StreamOnly(t) ==
  /\ tasks[t].pc \in {"stream", "copying"}
  /\ "slow" \in faults[t] /\ Cardinality(zombies) < MaxZombies
  /\ zombies' = zombies \cup {[t |-> t, k |-> passNumber, st |-> tasks[t].pc,
                               hasLen |-> tasks[t].hasLen]}
  /\ UpdateTask(t, Rejected)
  /\ UNCHANGED <<phase, passNumber, currentQueue, pending, blacklist, failureCounts,
                 addedAtDates, bfile, writes, dest, temp>>
  /\ proxyUnchanged /\ configUnchanged

\* the overall stream timeout settles Promise.race; the stream is not touched
Timeout(t) ==
  /\ tasks[t].pc \in {"stream", "copying", "hung"}
  /\ tasks[t].pc # "hung" => ("slow" \in faults[t] /\ Cardinality(zombies) < MaxZombies)
  /\ zombies' = IF tasks[t].pc = "hung" THEN zombies
                ELSE zombies \cup {[t |-> t, k |-> passNumber, st |-> tasks[t].pc,
                                    hasLen |-> tasks[t].hasLen]}
  /\ UpdateTask(t, Rejected)
  /\ UNCHANGED <<phase, passNumber, currentQueue, pending, blacklist, failureCounts,
                 addedAtDates, bfile, writes, dest, temp>>
  /\ proxyUnchanged /\ configUnchanged

\* a handler of a stream whose promise was already settled by the timeout
ZombieStep(z, x) ==
  /\ temp' = x.temp
  /\ dest' = x.dest
  /\ SetStore(x.store, Detached)
  /\ zombies' = IF x.out = "copying" THEN (zombies \ {z}) \cup {[z EXCEPT !.st = "copying"]}
                ELSE zombies \ {z}
  /\ UNCHANGED <<phase, passNumber, currentQueue, pending, failedDownloads,
                 completedDownloads, tasks, bfile>>
  /\ proxyUnchanged /\ configUnchanged

ZombieFinish(z, o) ==
  /\ z \in zombies /\ z.st = "stream"
  /\ o # "ok" => o \in faults[z.t]
  /\ o = "short" => z.hasLen
  /\ ZombieStep(z, finish(StreamId(z.t, z.k), destOf[z.t], pathOf[z.t], z.hasLen, o))

ZombieFail(z) ==
  /\ z \in zombies /\ z.st = "stream"
  /\ "streamfail" \in faults[z.t]
  /\ ZombieStep(z, safeReject(destOf[z.t], pathOf[z.t]))

ZombieCopyEnd(z, ok) ==
  /\ z \in zombies /\ z.st = "copying"
  /\ ~ok => "copyfail" \in faults[z.t]
  /\ ZombieStep(z, copyEnd(destOf[z.t], ok))

(***************************************************************************)
(* SpecProxy: a ProxyManager driven by direct calls.                       *)
(* SpecProxyReq: the requests that go through buildProxyAxiosOptions and   *)
(* recordProxyOutcome.                                                     *)
(***************************************************************************)
\* Date.now() advances
Tick ==
  /\ now < MaxClock
  /\ now' = now + 1
  /\ UNCHANGED <<pmConfigured, entries, currentIndex, cooldownMs, proxyWarningIssued,
                 reqs, lastSel, nCalls, anyFailure>>
  /\ UNCHANGED plVars

\* a direct call of manager.getNextProxy(url)
CallGetNextProxy ==
  /\ pmConfigured
  /\ nCalls < MaxCalls
  /\ currentIndex' = getNextProxy.idx
  /\ lastSel' = getNextProxy.sel
  /\ nCalls' = nCalls + 1
  /\ UNCHANGED <<pmConfigured, entries, cooldownMs, proxyWarningIssued, now, reqs, anyFailure>>
  /\ UNCHANGED plVars

\* a direct call of manager.reportFailure(id)
CallReportFailure(id) ==
  /\ pmConfigured
  /\ id \in 0 .. size - 1
  /\ entries[id + 1].consecutiveFailures < MaxConsec
  /\ entries' = reportFailure(id)
  /\ anyFailure' = TRUE
  /\ UNCHANGED <<pmConfigured, currentIndex, cooldownMs, proxyWarningIssued, now, reqs,
                 lastSel, nCalls>>
  /\ UNCHANGED plVars

\* a direct call of manager.reportSuccess(id)
CallReportSuccess(id) ==
  /\ pmConfigured
  /\ id \in 0 .. size - 1
  /\ entries' = reportSuccess(id)
  /\ UNCHANGED <<pmConfigured, currentIndex, cooldownMs, proxyWarningIssued, now, reqs,
                 lastSel, nCalls, anyFailure>>
  /\ UNCHANGED plVars

\* a request is issued: buildProxyAxiosOptions(ctx, url), then axios.get
BeginRequest(r) ==
  /\ reqs[r].st = "idle"
  /\ buildProxyAxiosOptions.asked => nCalls < MaxCalls
  /\ reqs' = [reqs EXCEPT ![r] = [st |-> "flight",
                                  sel |-> buildProxyAxiosOptions.selection,
                                  agent |-> buildProxyAxiosOptions.agent]]
  /\ currentIndex' = buildProxyAxiosOptions.idx
  /\ proxyWarningIssued' = buildProxyAxiosOptions.warned
  /\ lastSel' = IF buildProxyAxiosOptions.asked THEN getNextProxy.sel ELSE lastSel
  /\ nCalls' = IF buildProxyAxiosOptions.asked THEN nCalls + 1 ELSE nCalls
  /\ UNCHANGED <<pmConfigured, entries, cooldownMs, now, anyFailure>>
  /\ UNCHANGED plVars

\* the request settles: recordProxyOutcome(ctx, selection, error)
EndRequest(r, error) ==
  /\ reqs[r].st = "flight"
  /\ (reqs[r].sel # Null /\ shouldCooldownProxy(error))
       => entries[reqs[r].sel + 1].consecutiveFailures < MaxConsec
  /\ entries' = recordProxyOutcome(reqs[r].sel, error)
  /\ anyFailure' = (anyFailure \/ (reqs[r].sel # Null /\ shouldCooldownProxy(error)))
  /\ reqs' = [reqs EXCEPT ![r] = IdleReq]
  /\ UNCHANGED <<pmConfigured, currentIndex, cooldownMs, proxyWarningIssued, now,
                 lastSel, nCalls>>
  /\ UNCHANGED plVars

\* the output paths of a run: 'a.jpg', 'aa.MP4', 'aaa.jpg', ...
Stem(d) == [i \in 1 .. d |-> "a"]
NameOf(d) == Stem(d) \o (IF d % 2 = 1 THEN <<".", "j", "p", "g">> ELSE <<".", "M", "P", "4">>)
SiblingOf(d) == Stem(d) \o (IF d % 2 = 1 THEN Jxl ELSE Av1Mp4)

\* scrapeCreator has not fetched any post
NotPaged ==
  /\ maxPosts = 0
  /\ serverKind = "steady"
  /\ offset = 0
  /\ posts = 0
  /\ pages = 0
  /\ stop = ""
  /\ workingApiHost = FALSE
  /\ probeRetries = 0
  /\ fetchRetries = 0
  /\ spin = FALSE
  /\ pgpc = "idle"
  /\ attached = {}

\* the pipeline before scrapeCreator is called
IdlePipeline ==
  /\ host = "kemono.su"
  /\ maxConcurrentDownloads = 1
  /\ pathOf = [t \in Tasks |-> t]
  /\ destOf = [t \in Tasks |-> t]
  /\ faults = [t \in Tasks |-> {}]
  /\ outputPath = [d \in Dests |-> NameOf(d)]
  /\ extra = {}
  /\ NotPaged
  /\ phase = "start"
  /\ passNumber = 0
  /\ currentQueue = <<>>
  /\ pending = <<>>
  /\ failedDownloads = <<>>
  /\ completedDownloads = 0
  /\ tasks = [t \in Tasks |-> NewTask("none")]
  /\ zombies = {}
  /\ blacklist = {}
  /\ failureCounts = [p \in Paths |-> 0]
  /\ addedAtDates = [p \in Paths |-> NoDate]
  /\ bfile = {}
  /\ writes = {}
  /\ dest = [d \in Dests |-> NoFile]
  /\ temp = [d \in Dests |-> NoFile]
  /\ blAtBuild = {}

\* a pool of up to MaxProxies healthy proxies, or no proxy manager
InitProxy ==
  /\ pmConfigured \in BOOLEAN
  /\ \E n \in 0 .. MaxProxies :
       entries = [i \in 1 .. (IF pmConfigured THEN n ELSE 0) |-> NewEntry]
  /\ currentIndex = 0
  /\ cooldownMs \in 1 .. MaxCooldown
  /\ proxyWarningIssued = FALSE
  /\ now = 1
  /\ reqs = [r \in ReqIds |-> IdleReq]
  /\ lastSel = Null
  /\ nCalls = 0
  /\ anyFailure = FALSE
  /\ IdlePipeline

NextProxy ==
  \/ Tick
  \/ CallGetNextProxy
  \/ \E id \in 0 .. MaxProxies - 1 : CallReportFailure(id)
  \/ \E id \in 0 .. MaxProxies - 1 : CallReportSuccess(id)

SpecProxy == InitProxy /\ [][NextProxy]_vars

NextProxyReq ==
  \/ Tick
  \/ \E r \in ReqIds : BeginRequest(r)
  \/ \E r \in ReqIds, e \in SampleErrors \cup {NoError} : EndRequest(r, e)

SpecProxyReq == InitProxy /\ [][NextProxyReq]_vars

(***************************************************************************)
(* Properties of the proxy pool.                                           *)
(***************************************************************************)
\* a step that is one call of getNextProxy
GetStep == nCalls' = nCalls + 1

AllCooling == \A i \in 1 .. size : entries[i].cooldownUntil > now

\* C8 (round-robin fairness): with N >= 1 proxies, none cooling down and no
\* failure reported, the i-th call of getNextProxy returns the entry at
\* position (i-1) mod N of the configured order.
C8_RoundRobin ==
  (pmConfigured /\ size >= 1 /\ ~anyFailure /\ nCalls >= 1) => lastSel = (nCalls - 1) % size

\* the rotation has wrapped around: call N+1 returned the first proxy again
C8_Witness ==
  pmConfigured /\ size = MaxProxies /\ ~anyFailure /\ nCalls = MaxProxies + 1 /\ lastSel = 0

\* C9 as stated (cooldown exclusion): a proxy X with a reported failure is
\* returned by getNextProxy only once the current time has advanced past X's
\* cooldownUntil; while X is cooling and another proxy is healthy the call
\* returns a different proxy; when every proxy is cooling down it returns null.
C9_AsStated ==
  [][GetStep =>
       /\ (lastSel' # Null /\ entries[lastSel' + 1].consecutiveFailures > 0)
            => now > entries[lastSel' + 1].cooldownUntil
       /\ (size >= 1 /\ ~AllCooling) => lastSel' # Null
       /\ (size >= 1 /\ AllCooling) => lastSel' = Null]_vars

\* C9 (cooldown exclusion, amended): a proxy X with a reported failure is
\* returned by getNextProxy only when the current time has reached X's
\* cooldownUntil (now >= cooldownUntil); while X is cooling and another proxy
\* is healthy the call returns a different proxy; when every proxy is cooling
\* down it returns null.
C9_CooldownExclusion ==
  [][GetStep =>
       /\ (lastSel' # Null /\ entries[lastSel' + 1].consecutiveFailures > 0)
            => now >= entries[lastSel' + 1].cooldownUntil
       /\ (size >= 1 /\ ~AllCooling) => lastSel' # Null
       /\ (size >= 1 /\ AllCooling) => lastSel' = Null]_vars

\* a call skipped a cooling proxy and returned the other one
C9_Witness ==
  /\ nCalls >= 2 /\ lastSel # Null
  /\ \E i \in 1 .. size : i - 1 # lastSel /\ entries[i].cooldownUntil > now
                          /\ entries[i].consecutiveFailures > 0

\* C10 (direct-connection fallback): getNextProxy returns null exactly when
\* the pool is empty or every entry's cooldownUntil is in the future; a
\* request whose selection is null (or that has no proxy manager) carries no
\* agent options, and when it settles no proxy outcome is recorded.
C10_DirectFallback ==
  /\ [](getNextProxy.sel = Null <=> (size = 0 \/ AllCooling))
  /\ [][\A r \in ReqIds :
          /\ (reqs[r].st = "idle" /\ reqs'[r].st = "flight") =>
               /\ reqs'[r].sel = Null <=> (~pmConfigured \/ size = 0 \/ AllCooling)
               /\ reqs'[r].agent = (reqs'[r].sel # Null)
          /\ (reqs[r].st = "flight" /\ reqs'[r].st = "idle" /\ reqs[r].sel = Null) =>
               entries' = entries]_vars

\* a request went out directly because every configured proxy was cooling,
\* and the fallback warning was issued
C10_Witness ==
  \E r \in ReqIds : /\ reqs[r].st = "flight" /\ reqs[r].sel = Null /\ ~reqs[r].agent
                    /\ pmConfigured /\ size >= 1 /\ proxyWarningIssued

\* the errors the proxy is to blame for: connection refused/reset/timeout,
\* host or network unreachable (no response), or HTTP 407
Attributable(e) ==
  /\ e # NoError
  /\ e.axios
  /\ (e.status = 0 /\ e.code \in PROXY_FAILURE_CODES) \/ e.status = 407

\* C11 (proxy outcome classification): when a request that went through a
\* proxy settles, recordProxyOutcome sets the proxy's cooldownUntil to
\* now + cooldownMs and adds 1 to consecutiveFailures only for an
\* attributable error, leaves both unchanged for every other error (origin
\* HTTP errors, errors that are no HTTP-client errors), and resets both to
\* zero on success.
C11_OutcomeClassification ==
  [][\A r \in ReqIds, e \in SampleErrors \cup {NoError} :
       (EndRequest(r, e) /\ reqs[r].sel # Null) =>
          entries'[reqs[r].sel + 1] =
            IF e = NoError THEN [cooldownUntil |-> 0, consecutiveFailures |-> 0]
            ELSE IF Attributable(e)
            THEN [cooldownUntil |-> now + cooldownMs,
                  consecutiveFailures |-> entries[reqs[r].sel + 1].consecutiveFailures + 1]
            ELSE entries[reqs[r].sel + 1]]_vars

(***************************************************************************)
(* src/download.ts: downloadFiles, downloadAllWithRetries                  *)
(* src/scraper.ts: scrapeCreator                                           *)
(*                                                                         *)
(* phase: start -> swept -> (loadsave ->) loaded -> pass <-> between       *)
(*        -> (ceiling <-> ceilingsave ->) flush -> done                    *)
(***************************************************************************)
InQueue(t) == \E i \in 1 .. Len(currentQueue) : currentQueue[i] = t

\* scrapeCreator's final `await saveBlacklist(ctx)` is started
FinalSave(bl, fc, dates) ==
  /\ phase' = "flush"
  /\ writes' = writes \cup {[by |-> Main, snap |-> saveBlacklist(bl, fc, dates)]}

\* scrapeCreator: cleanupTempFiles(ctx.outputDir)
CleanupTempFiles ==
  /\ phase = "start"
  /\ temp' = cleanupTempFiles(temp)
  /\ phase' = "swept"
  /\ UNCHANGED <<passNumber, currentQueue, pending, failedDownloads, completedDownloads,
                 tasks, zombies, blacklist, failureCounts, addedAtDates, bfile, writes, dest>>
  /\ proxyUnchanged /\ configUnchanged

\* scrapeCreator: loadBlacklist(ctx)
LoadBlacklist ==
  /\ phase = "swept"
  /\ LET ld == loadBlacklist(bfile)
     IN /\ blacklist' = ld.blacklist
        /\ failureCounts' = ld.failureCounts
        /\ addedAtDates' = ld.addedAtDates
        /\ IF ld.expiredCount > 0
           THEN /\ writes' = writes \cup
                      {[by |-> Main,
                        snap |-> saveBlacklist(ld.blacklist, ld.failureCounts, ld.addedAtDates)]}
                /\ phase' = "loadsave"
           ELSE /\ writes' = writes
                /\ phase' = "loaded"
  /\ UNCHANGED <<passNumber, currentQueue, pending, failedDownloads, completedDownloads,
                 tasks, zombies, bfile, dest, temp>>
  /\ proxyUnchanged /\ configUnchanged

\* the queue scrapeCreator builds from the files of the fetched posts
downloadQueue ==
  SelectSeq([t \in Tasks |-> t], LAMBDA t : t \in attached /\ pathOf[t] \notin blacklist)

\* scrapeCreator builds the queue and calls downloadAllWithRetries, which
\* starts its first pass
BuildQueue ==
  /\ phase = "loaded"
  /\ blAtBuild' = blacklist
  /\ currentQueue' = downloadQueue
  /\ IF downloadQueue # <<>>
     THEN /\ phase' = "pass"
          /\ passNumber' = 1
          /\ pending' = downloadQueue
          /\ tasks' = [t \in Tasks |-> IF t \in attached /\ pathOf[t] \notin blacklist
                                        THEN NewTask("queued")
                                        ELSE tasks[t]]
          /\ writes' = writes
     ELSE /\ FinalSave(blacklist, failureCounts, addedAtDates)
          /\ UNCHANGED <<passNumber, pending, tasks>>
  /\ UNCHANGED <<failedDownloads, completedDownloads, zombies, blacklist, failureCounts,
                 addedAtDates, bfile, dest, temp>>
  /\ proxyUnchanged
  /\ UNCHANGED cfgVars

\* downloadFiles resolves ('done'); downloadAllWithRetries filters the failed
\* entries and goes on
EndPass ==
  /\ phase = "pass"
  /\ pending = <<>>
  /\ Running = {}
  /\ LET failed == SelectSeq(failedDownloads, LAMBDA t : pathOf[t] \notin blacklist)
     IN /\ currentQueue' = failed
        /\ IF failed # <<>> /\ passNumber < MAX_RETRY_PASSES
           THEN /\ phase' = "between"
                /\ UNCHANGED <<pending, writes>>
           ELSE IF failed # <<>>
           THEN /\ phase' = "ceiling"
                /\ pending' = failed
                /\ writes' = writes
           ELSE /\ FinalSave(blacklist, failureCounts, addedAtDates)
                /\ pending' = pending
  /\ UNCHANGED <<passNumber, failedDownloads, completedDownloads, tasks, zombies, blacklist,
                 failureCounts, addedAtDates, bfile, dest, temp>>
  /\ proxyUnchanged /\ configUnchanged

\* the 5 s between passes are over: task ids are re-minted, the next pass starts
StartPass ==
  /\ phase = "between"
  /\ phase' = "pass"
  /\ passNumber' = passNumber + 1
  /\ pending' = currentQueue
  /\ failedDownloads' = <<>>
  /\ tasks' = [t \in Tasks |-> IF InQueue(t) THEN NewTask("queued") ELSE tasks[t]]
  /\ UNCHANGED <<currentQueue, completedDownloads, zombies, blacklist, failureCounts,
                 addedAtDates, bfile, writes, dest, temp>>
  /\ proxyUnchanged /\ configUnchanged

\* after the last pass: addToBlacklist for the next still-failing task
CeilingAdd ==
  /\ phase = "ceiling"
  /\ pending # <<>>
  /\ LET st == addToBlacklist(Store, pathOf[Head(pending)])
     IN /\ blacklist' = st.blacklist
        /\ failureCounts' = st.failureCounts
        /\ addedAtDates' = st.addedAtDates
        /\ IF st.saved
           THEN /\ writes' = writes \cup
                      {[by |-> Main,
                        snap |-> saveBlacklist(st.blacklist, st.failureCounts, st.addedAtDates)]}
                /\ phase' = "ceilingsave"
           ELSE IF Tail(pending) = <<>>
           THEN FinalSave(st.blacklist, st.failureCounts, st.addedAtDates)
           ELSE /\ writes' = writes
                /\ phase' = phase
  /\ pending' = Tail(pending)
  /\ UNCHANGED <<passNumber, currentQueue, failedDownloads, completedDownloads, tasks,
                 zombies, bfile, dest, temp>>
  /\ proxyUnchanged /\ configUnchanged

\* a whole-file rewrite of blacklist.json completes; whoever awaits it goes on
WriteDone(w) ==
  /\ w \in writes
  /\ bfile' = w.snap
  /\ IF w.by \in Tasks /\ tasks[w.by].pc = "saving"
     THEN /\ UpdateTask(w.by, Cont(w.by, tasks[w.by].after, tasks[w.by].retries,
                                   tasks[w.by].cdn, blacklist))
          /\ writes' = writes \ {w}
          /\ phase' = phase
     ELSE /\ UNCHANGED <<tasks, failedDownloads, completedDownloads>>
          /\ IF w.by # Main THEN writes' = writes \ {w} /\ phase' = phase
             ELSE IF phase = "loadsave" THEN writes' = writes \ {w} /\ phase' = "loaded"
             ELSE IF phase = "ceilingsave" /\ pending # <<>>
             THEN writes' = writes \ {w} /\ phase' = "ceiling"
             ELSE IF phase = "ceilingsave"
             THEN /\ phase' = "flush"
                  /\ writes' = (writes \ {w}) \cup
                       {[by |-> Main,
                         snap |-> saveBlacklist(blacklist, failureCounts, addedAtDates)]}
             ELSE writes' = writes \ {w} /\ phase' = "done"
  /\ UNCHANGED <<passNumber, currentQueue, pending, zombies, blacklist, failureCounts,
                 addedAtDates, dest, temp>>
  /\ proxyUnchanged /\ configUnchanged

(***************************************************************************)
(* Spec: one run of scrapeCreator.                                         *)
(***************************************************************************)
\* One run is fixed by what pagination found, what earlier runs left behind
\* and what the server and the file system will do to each attachment:
\*   conn, abort, http, 500, local, localtimeout   axios.get may fail that way
\*   nolen        responses carry no content-length
\*   premature, short, streamfail                  the stream may fail that way
\*   renamefail, copyfail                          fs.rename / fs.copy may throw
\*   slow         the stream may outlast the overall stream timeout
Stale == File(Prior, "partial")
Old == File(Prior, "complete")

SoloFaults ==
  {{}, {"conn"}, {"abort"}, {"http"}, {"500"}, {"local"}, {"localtimeout"},
   {"premature"}, {"short"}, {"streamfail"}, {"nolen", "premature"},
   {"renamefail"}, {"renamefail", "copyfail"}, {"nolen", "renamefail", "copyfail"},
   {"slow"}, {"slow", "nolen"}, {"slow", "premature"}, {"slow", "renamefail", "copyfail"},
   {"slow", "nolen", "streamfail"}, {"conn", "500"}, {"conn", "slow"}}

DuoFaults == {{}, {"conn"}, {"500"}, {"slow", "nolen"}}

\* a stream that outlasts the timeout and fails later, next to an attachment
\* the server refuses in every pass
LateFaults == <<{"conn", "slow", "premature"}, {"http"}>>

Scenario(h, c, px, po, do, fl, bf, ds, tm, ex) ==
  [host |-> h, conc |-> c, proxy |-> px, pathOf |-> po, destOf |-> do, faults |-> fl,
   bfile |-> bf, dest |-> ds, temp |-> tm, extra |-> ex]

Others == Tasks \ {1}
Distinct == [t \in Tasks |-> t]
Same == [t \in Tasks |-> IF t <= 2 THEN 1 ELSE t]
Fresh(ps) == {Entry(p, MAX_FAILURES_BEFORE_BLACKLIST, now) : p \in ps}
Lapsed(ps) == {Entry(p, MAX_FAILURES_BEFORE_BLACKLIST, now - BLACKLIST_EXPIRY_MS - 1) : p \in ps}
Edge(ps) == {Entry(p, MAX_FAILURES_BEFORE_BLACKLIST, now - BLACKLIST_EXPIRY_MS) : p \in ps}

\* only the first attachment is downloaded: the others are blacklisted or
\* already on disk
Solo ==
  {Scenario("coomer.su", 1, px, Distinct, Distinct, [t \in Tasks |-> IF t = 1 THEN f ELSE {}],
            Fresh(Others), [t \in Tasks |-> NoFile],
            [t \in Tasks |-> IF t = 1 THEN tm ELSE NoFile], {}) :
     px \in BOOLEAN, f \in SoloFaults, tm \in {NoFile, Stale}}
  \cup
  {Scenario("coomer.su", 1, FALSE, Distinct, Distinct, [t \in Tasks |-> IF t = 1 THEN f ELSE {}],
            bf, [t \in Tasks |-> IF t = 1 \/ sib THEN NoFile ELSE Old], [t \in Tasks |-> Stale],
            IF sib THEN {SiblingOf(d) : d \in Others} ELSE {}) :
     f \in {{}, {"conn"}, {"500"}}, bf \in {{}, Lapsed({1}), Lapsed({1}) \cup Edge(Others)},
     sib \in BOOLEAN}

\* all attachments are downloaded; the first two may share path and output path
Duo ==
  {Scenario("kemono.su", c, FALSE, lay, lay,
            [t \in Tasks |-> IF t = 1 THEN f1 ELSE IF t = 2 THEN f2 ELSE {}],
            {}, [t \in Tasks |-> NoFile], [t \in Tasks |-> NoFile], {}) :
     c \in 1 .. NTasks, lay \in {Distinct, Same}, f1 \in DuoFaults, f2 \in DuoFaults}
  \cup
  {Scenario("kemono.su", NTasks, FALSE, Distinct, Distinct,
            [t \in Tasks |-> IF t <= 2 THEN LateFaults[t] ELSE {}],
            {}, [t \in Tasks |-> NoFile], [t \in Tasks |-> NoFile], {})}

\* a second run over an output directory an earlier run has filled: every
\* output path, or its compressed sibling, is there; the server may be down
Rerun ==
  {Scenario("coomer.su", c, px, Distinct, Distinct, [t \in Tasks |-> {"conn"}],
            bf, [t \in Tasks |-> IF t \in sibs THEN NoFile ELSE Old], [t \in Tasks |-> tm],
            {SiblingOf(d) : d \in sibs}) :
     c \in {1, NTasks}, px \in BOOLEAN, bf \in {{}, Lapsed({1})}, sibs \in SUBSET Tasks,
     tm \in {NoFile, Stale}}

Scenarios == Solo \cup Duo \cup Rerun

\* pagination as the scenarios sum it up: the first page held all the posts
\* of the creator, fewer than PAGE_SIZE, with the attachments Tasks
Paged ==
  /\ maxPosts = 0
  /\ serverKind = "steady"
  /\ offset = 0
  /\ posts = NTasks
  /\ pages = 1
  /\ stop = "short"
  /\ workingApiHost = TRUE
  /\ probeRetries = 0
  /\ fetchRetries = 0
  /\ spin = FALSE
  /\ pgpc = "over"
  /\ attached = Tasks

IdleProxy ==
  /\ reqs = [r \in ReqIds |-> IdleReq]
  /\ lastSel = Null
  /\ nCalls = 0
  /\ anyFailure = FALSE

Init ==
  /\ now = 10
  /\ \E sc \in Scenarios :
       /\ pmConfigured = sc.proxy
       /\ entries = [i \in 1 .. (IF sc.proxy THEN 1 ELSE 0) |-> NewEntry]
       /\ host = sc.host
       /\ maxConcurrentDownloads = sc.conc
       /\ pathOf = sc.pathOf
       /\ destOf = sc.destOf
       /\ faults = sc.faults
       /\ bfile = sc.bfile
       /\ dest = sc.dest
       /\ temp = sc.temp
       /\ outputPath = [d \in Dests |-> NameOf(d)]
       /\ extra = sc.extra
  /\ Paged
  /\ currentIndex = 0
  /\ cooldownMs = 1
  /\ proxyWarningIssued = FALSE
  /\ IdleProxy
  /\ phase = "start"
  /\ passNumber = 0
  /\ currentQueue = <<>>
  /\ pending = <<>>
  /\ failedDownloads = <<>>
  /\ completedDownloads = 0
  /\ tasks = [t \in Tasks |-> NewTask("none")]
  /\ zombies = {}
  /\ blacklist = {}
  /\ failureCounts = [p \in Paths |-> 0]
  /\ addedAtDates = [p \in Paths |-> NoDate]
  /\ writes = {}
  /\ blAtBuild = {}

DownloadErrors ==
  {e \in Errors : e.code \in {"ECONNRESET", "ERR_CANCELED", "EACCES"} \/ e.status \in {500, 404}}

Next ==
  \/ CleanupTempFiles
  \/ LoadBlacklist
  \/ BuildQueue
  \/ \E t \in Tasks : Start(t)
  \/ \E t \in Tasks : Prepare(t)
  \/ \E t \in Tasks, e \in DownloadErrors \cup {NoError}, len \in BOOLEAN : Response(t, e, len)
  \/ \E t \in Tasks : WaitDone(t)
  \/ \E t \in Tasks, o \in {"premature", "short", "ok", "renamefail"} : Finish(t, o)
  \/ \E t \in Tasks : StreamFail(t)
  \/ \E t \in Tasks, ok \in BOOLEAN : CopyEnd(t, ok)
  \/ \E t \in Tasks : Timeout(t)
  \/ \E z \in zombies, o \in {"premature", "short", "ok", "renamefail"} : ZombieFinish(z, o)
  \/ \E z \in zombies : ZombieFail(z)
  \/ \E z \in zombies, ok \in BOOLEAN : ZombieCopyEnd(z, ok)
  \/ EndPass
  \/ StartPass
  \/ CeilingAdd
  \/ \E w \in writes : WriteDone(w)

Spec == Init /\ [][Next]_vars

\* Spec with its timers firing and its I/O completing: a step that can be
\* taken is eventually taken
\* The runs it is checked for: no proxy, an empty output directory, and
\* either one attachment to download or several of which only the first two
\* meet faults.
FairRuns ==
  /\ ~pmConfigured
  /\ extra = {}
  /\ \A d \in Dests : temp[d] = NoFile /\ dest[d] = NoFile
  /\ \/ bfile = Fresh(Others)
     \/ /\ bfile = {}
        /\ pathOf = Distinct
        /\ faults[1] \in {{"conn"}, {"slow", "nolen"}}
        /\ faults[2] \in {{"500"}, {"slow", "nolen"}}

InitFair == Init /\ FairRuns

SpecFair == InitFair /\ [][Next]_vars /\ WF_vars(Next)

(***************************************************************************)
(* src/posts.ts, src/scraper.ts: pagination.                               *)
(*                                                                         *)
(* Post ids are the positive integers; the server hands out pages whose    *)
(* ids are consecutive and start at or below the first id not seen yet,    *)
(* so that seenPostIds is always 1 .. posts.                               *)
(***************************************************************************)
PAGE_SIZE == 50
DEFAULT_POST_LIMIT == 5000
MAX_OFFSET == 10000
DUPLICATE_MIN_POSTS == 100
PROBE_MAX_RETRIES == 3
FETCH_MAX_RETRIES == 3
FETCH_MAX_RETRIES_429 == 5

seenPostIds == 1 .. posts

\* a page of n posts of which d have been seen before
Page(n, d) == [i \in 1 .. n |-> posts - d + i]

\* the for loop over fetchedPosts: the ids it adds to seenPostIds and posts
newPosts(fetchedPosts) ==
  Cardinality({fetchedPosts[i] : i \in DOMAIN fetchedPosts} \ seenPostIds)

maxPostsLimit == IF maxPosts > 0 THEN maxPosts ELSE DEFAULT_POST_LIMIT

\* a loop body that goes on after a page without a new id
scanPage_NoWrapStop(fetchedPosts) ==
  LET n == Len(fetchedPosts)
      k == newPosts(fetchedPosts)
      go(reason) == [posts |-> posts + k, stop |-> reason, offset |-> offset]
  IN IF n = 0 THEN [posts |-> posts, stop |-> "empty", offset |-> offset]
     ELSE IF 10 * (n - k) > 9 * n /\ posts + k > DUPLICATE_MIN_POSTS THEN go("dupes")
     ELSE IF n < PAGE_SIZE THEN go("short")
     ELSE IF posts + k >= maxPostsLimit THEN go("limit")
     ELSE IF offset >= MAX_OFFSET THEN go("ceiling")
     ELSE [posts |-> posts + k, stop |-> "", offset |-> offset + PAGE_SIZE]

\* a loop body that tests the stop conditions before it collects the page
scanPage_StopFirst(fetchedPosts) ==
  LET n == Len(fetchedPosts)
      k == newPosts(fetchedPosts)
      go(reason) == [posts |-> posts, stop |-> reason, offset |-> offset]
  IN IF n = 0 THEN [posts |-> posts, stop |-> "empty", offset |-> offset]
     ELSE IF k = 0 THEN [posts |-> posts, stop |-> "nonew", offset |-> offset]
     ELSE IF 10 * (n - k) > 9 * n /\ posts + k > DUPLICATE_MIN_POSTS THEN go("dupes")
     ELSE IF n < PAGE_SIZE THEN go("short")
     ELSE IF posts + k >= maxPostsLimit THEN go("limit")
     ELSE IF offset >= MAX_OFFSET THEN go("ceiling")
     ELSE [posts |-> posts + k, stop |-> "", offset |-> offset + PAGE_SIZE]

\* the body of the pagination loop for one fetched page: the posts collected
\* afterwards, why the loop is left ("" = it goes on) and the next offset.
\* (n - k) / n > 0.9 is decided exactly by 10 (n - k) > 9 n: the quotient is
\* rounded to the nearest double, as the literal 0.9 is.
scanPage(fetchedPosts) ==
  LET n == Len(fetchedPosts)
      k == newPosts(fetchedPosts)
      go(reason) == [posts |-> posts + k, stop |-> reason, offset |-> offset]
  IN IF n = 0 THEN [posts |-> posts, stop |-> "empty", offset |-> offset]
     ELSE IF k = 0 THEN [posts |-> posts, stop |-> "nonew", offset |-> offset]
     ELSE IF 10 * (n - k) > 9 * n /\ posts + k > DUPLICATE_MIN_POSTS THEN go("dupes")
     ELSE IF n < PAGE_SIZE THEN go("short")
     ELSE IF posts + k >= maxPostsLimit THEN go("limit")
     ELSE IF offset >= MAX_OFFSET THEN go("ceiling")
     ELSE [posts |-> posts + k, stop |-> "", offset |-> offset + PAGE_SIZE]

\* fetchPosts' catch: retry | empty (404 is read as an empty page) | throw
fetchCatch(error, retries) ==
  IF ~error.axios THEN "throw"
  ELSE IF error.status = 429 /\ retries < FETCH_MAX_RETRIES_429 THEN "retry"
  ELSE IF retries < FETCH_MAX_RETRIES /\ error.status # 404 THEN "retry"
  ELSE IF error.status = 404 THEN "empty"
  ELSE "throw"

\* findWorkingApiHost's catch: retry | throw
probeCatch(error, retries) ==
  IF ~error.axios THEN "throw"
  ELSE IF error.status = 429 THEN (IF retries + 1 <= PROBE_MAX_RETRIES THEN "retry" ELSE "throw")
  ELSE IF retries < PROBE_MAX_RETRIES THEN "retry"
  ELSE "throw"

pagingUnchanged ==
  UNCHANGED <<host, maxConcurrentDownloads, pathOf, destOf, faults, outputPath, extra,
              passNumber, currentQueue, pending, failedDownloads, completedDownloads, tasks,
              zombies, blacklist, failureCounts, addedAtDates, bfile, writes, dest, temp,
              blAtBuild, maxPosts, serverKind, attached,
              pmConfigured, cooldownMs, now, reqs, lastSel, nCalls, anyFailure>>

\* the request of findWorkingApiHost or fetchPosts through the proxy pool
PageRequest(error) ==
  /\ currentIndex' = buildProxyAxiosOptions.idx
  /\ proxyWarningIssued' = buildProxyAxiosOptions.warned
  /\ entries' = recordProxyOutcome(buildProxyAxiosOptions.selection, error)

\* the while loop of scrapeCreator is left, by break or through its catch
LeaveLoop(reason) ==
  /\ stop' = reason
  /\ pgpc' = "over"
  /\ phase' = "loaded"

\* scrapeCreator: `await fetchPosts(ctx, offset)`
CallFetchPosts ==
  /\ phase = "paging"
  /\ pgpc = "call"
  /\ pages' = pages + 1
  /\ fetchRetries' = 0
  /\ probeRetries' = 0
  /\ pgpc' = IF workingApiHost THEN "get" ELSE "probe"
  /\ UNCHANGED <<phase, offset, posts, stop, workingApiHost, spin, entries, currentIndex,
                 proxyWarningIssued>>
  /\ pagingUnchanged

\* findWorkingApiHost: one turn of its loop; the probe is answered with a
\* 200 whose body holds a posts array (valid), with another 2xx response,
\* or fails with error
ProbeHost(valid, error) ==
  /\ phase = "paging"
  /\ pgpc = "probe"
  /\ error # NoError => ~valid
  /\ serverKind = "steady" => valid
  /\ PageRequest(error)
  /\ IF valid
     THEN /\ workingApiHost' = TRUE
          /\ pgpc' = "get"
          /\ probeRetries' = 0
          /\ UNCHANGED <<phase, stop, spin>>
     ELSE IF error = NoError
     THEN /\ spin' = ~spin
          /\ UNCHANGED <<phase, stop, probeRetries, workingApiHost, pgpc>>
     ELSE IF probeCatch(error, probeRetries) = "retry"
     THEN /\ probeRetries' = probeRetries + 1
          /\ UNCHANGED <<phase, stop, workingApiHost, pgpc, spin>>
     ELSE /\ LeaveLoop("nohost")
          /\ probeRetries' = 0
          /\ UNCHANGED <<workingApiHost, spin>>
  /\ UNCHANGED <<offset, posts, pages, fetchRetries>>
  /\ pagingUnchanged

\* fetchPosts: axios.get settles with a page of n posts, d of them seen
\* before, or with error; scrapeCreator's loop body follows
GetPage(n, d, error) ==
  /\ phase = "paging"
  /\ pgpc = "get"
  /\ d <= n /\ d <= posts
  /\ error # NoError => n = 0 /\ serverKind = "any"
  /\ serverKind = "steady" => d \in {0, n}
  /\ PageRequest(error)
  /\ LET how == IF error = NoError THEN "page" ELSE fetchCatch(error, fetchRetries)
         r == scanPage(Page(n, d))
     IN CASE how = "retry" ->
               /\ fetchRetries' = fetchRetries + 1
               /\ UNCHANGED <<phase, offset, posts, stop, pgpc>>
          [] how = "throw" ->
               /\ LeaveLoop("error")
               /\ fetchRetries' = 0
               /\ UNCHANGED <<offset, posts>>
          [] OTHER ->
               /\ posts' = r.posts
               /\ offset' = r.offset
               /\ fetchRetries' = 0
               /\ IF r.stop = ""
                  THEN pgpc' = "call" /\ UNCHANGED <<phase, stop>>
                  ELSE LeaveLoop(r.stop)
  /\ UNCHANGED <<pages, workingApiHost, probeRetries, spin>>
  /\ pagingUnchanged

(***************************************************************************)
(* SpecPages: one run of scrapeCreator for a creator whose posts carry no  *)
(* attachment, from the start of pagination.                               *)
(***************************************************************************)
PageLengths == {0, 1, PAGE_SIZE - 1, PAGE_SIZE}
PageSeen == {0, PAGE_SIZE - 5, PAGE_SIZE - 4, PAGE_SIZE}

PageErrors == {e \in Errors : e.status \in {429, 404, 500} \/ (e.code = "EACCES" /\ ~e.timeoutMsg)}

\* <<serverKind, maxPosts, a proxy is configured>>
PageScenarios ==
  {<<"steady", 0, FALSE>>, <<"steady", 20000, FALSE>>,
   <<"any", 1, TRUE>>, <<"any", 1, FALSE>>, <<"any", 120, FALSE>>}

InitPages ==
  /\ \E sc \in PageScenarios :
       /\ serverKind = sc[1]
       /\ maxPosts = sc[2]
       /\ pmConfigured = sc[3]
       /\ entries = [i \in 1 .. (IF sc[3] THEN 1 ELSE 0) |-> NewEntry]
  /\ currentIndex = 0
  /\ cooldownMs = 1
  /\ proxyWarningIssued = FALSE
  /\ now = 10
  /\ IdleProxy
  /\ host = "kemono.su"
  /\ maxConcurrentDownloads = 1
  /\ pathOf = Distinct
  /\ destOf = Distinct
  /\ faults = [t \in Tasks |-> {}]
  /\ outputPath = [d \in Dests |-> NameOf(d)]
  /\ extra = {}
  /\ offset = 0
  /\ posts = 0
  /\ pages = 0
  /\ stop = ""
  /\ workingApiHost = FALSE
  /\ probeRetries = 0
  /\ fetchRetries = 0
  /\ spin = FALSE
  /\ pgpc = "call"
  /\ attached = {}
  /\ phase = "paging"
  /\ passNumber = 0
  /\ currentQueue = <<>>
  /\ pending = <<>>
  /\ failedDownloads = <<>>
  /\ completedDownloads = 0
  /\ tasks = [t \in Tasks |-> NewTask("none")]
  /\ zombies = {}
  /\ blacklist = {}
  /\ failureCounts = [p \in Paths |-> 0]
  /\ addedAtDates = [p \in Paths |-> NoDate]
  /\ bfile = {}
  /\ writes = {}
  /\ dest = [d \in Dests |-> NoFile]
  /\ temp = [d \in Dests |-> NoFile]
  /\ blAtBuild = {}

NextPages ==
  \/ CallFetchPosts
  \/ \E valid \in BOOLEAN, e \in PageErrors \cup {NoError} : ProbeHost(valid, e)
  \/ \E n \in PageLengths, d \in PageSeen, e \in PageErrors \cup {NoError} : GetPage(n, d, e)
  \/ BuildQueue
  \/ \E w \in writes : WriteDone(w)

SpecPages == InitPages /\ [][NextPages]_vars

\* every awaited request settles and every timer fires
SpecPagesFair == InitPages /\ [][NextPages]_vars /\ WF_vars(NextPages)

(***************************************************************************)
(* Properties of pagination.                                               *)
(***************************************************************************)
\* the page (n, d) is received and scanned
PageStep(n, d) == GetPage(n, d, NoError)

\* C14 (pagination wraparound stop): a fetched page without an id that has
\* not been seen before ends pagination and adds nothing to the collected
\* posts; no page is requested afterwards, so a loop left that way has
\* requested offset / PAGE_SIZE + 1 pages (two when page 2 repeats the 50
\* ids of page 1, with 50 posts collected).
C14_WraparoundStop ==
  /\ [][\A n \in PageLengths, d \in PageSeen :
          (PageStep(n, d) /\ newPosts(Page(n, d)) = 0) =>
             /\ posts' = posts
             /\ stop' \in {"empty", "nonew"}
             /\ pgpc' = "over"]_vars
  /\ [][pgpc = "over" => (pgpc' = "over" /\ pages' = pages /\ posts' = posts)]_vars
  /\ [](stop = "nonew" => pages = (offset \div PAGE_SIZE) + 1)

\* page 1 brought 50 posts, page 2 the same 50 ids
C14_Witness ==
  /\ stop = "nonew"
  /\ pages = 2
  /\ offset = PAGE_SIZE
  /\ posts = PAGE_SIZE

\* the page (n, d) makes the loop stop, as the claim lists the reasons
StopsAt(n, d) ==
  LET k == newPosts(Page(n, d))
  IN \/ n = 0
     \/ k = 0
     \/ 10 * (n - k) > 9 * n /\ posts + k > DUPLICATE_MIN_POSTS
     \/ n < PAGE_SIZE
     \/ posts + k >= maxPostsLimit
     \/ offset >= MAX_OFFSET

\* the offsets are 0, 50, 100, ... up to 10000, one page request each; the
\* loop stops exactly at the first page that meets a stop condition, and
\* at a fetchPosts that throws, which keeps the posts collected
PaginationSteps ==
  /\ [](/\ offset <= MAX_OFFSET
        /\ pages <= (MAX_OFFSET \div PAGE_SIZE) + 1
        /\ pgpc \in {"probe", "get"} => offset = PAGE_SIZE * (pages - 1))
  /\ [][offset' # offset => (offset' = offset + PAGE_SIZE /\ pgpc' = "call")]_vars
  /\ [][\A n \in PageLengths, d \in PageSeen :
          PageStep(n, d) => ((pgpc' = "over") <=> StopsAt(n, d))]_vars
  /\ [][\A e \in PageErrors :
          (GetPage(0, 0, e) /\ fetchCatch(e, fetchRetries) = "throw") =>
             (pgpc' = "over" /\ posts' = posts)]_vars

\* C15 (pagination termination): for every sequence of server responses
\* the pagination loop ends, after at most 201 page requests at the offsets
\* 0, 50, ..., 10000; it stops at the first page that is empty, has no new
\* id, has more than 90% duplicates with more than 100 posts collected, is
\* shorter than 50, reaches the post limit or is at offset >= 10000, and a
\* page-fetch error ends it with the posts collected so far.
C15_PaginationTermination ==
  /\ PaginationSteps
  /\ <>(pgpc = "over")

\* C16 (maxPosts): with maxPosts = 0 pagination is never stopped because of
\* the number of posts collected; with maxPosts = m > 0 no more than m posts
\* are collected.
C16_MaxPosts ==
  /\ [](maxPosts > 0 => posts <= maxPosts)
  /\ [](maxPosts = 0 => stop # "limit")

\* C19 (fatal discovery failure): when findWorkingApiHost gives up, the
\* scrape is aborted: scrapeCreator does not go on to build the download
\* queue and call downloadAllWithRetries, does not report 'All files
\* downloaded.' and does not write lastupdated.txt.
C19_FatalDiscovery == [](stop = "nohost" => phase \in {"paging", "loaded"})

(***************************************************************************)
(* SpecExists: one invocation of downloadFile at its existence check, for  *)
(* any output path and any content of the output directory.                *)
(***************************************************************************)
TestStems == {<<"b">>, <<"d", "/", "b">>, <<"d", "/">>, <<"b", ".", "c">>, <<>>}

TestExts ==
  {<<>>, <<".">>, <<".", "j", "p", "g">>, <<".", "J", "P", "G">>, <<".", "j", "p", "e", "g">>,
   <<".", "J", "p", "E", "g">>, <<".", "m", "p", "4">>, <<".", "M", "P", "4">>,
   <<".", "m", "k", "v">>, <<".", "M", "k", "v">>, <<".", "p", "n", "g">>, Jxl}

InitExists ==
  /\ pmConfigured = TRUE
  /\ entries = [i \in 1 .. MaxProxies |-> NewEntry]
  /\ currentIndex = 0
  /\ cooldownMs = 1
  /\ proxyWarningIssued = FALSE
  /\ now = 10
  /\ IdleProxy
  /\ host = "kemono.su"
  /\ maxConcurrentDownloads = 1
  /\ pathOf = Distinct
  /\ destOf = Distinct
  /\ faults = [t \in Tasks |-> {}]
  /\ Paged
  /\ \E stem \in TestStems, ext \in TestExts :
       /\ stem \o ext # <<>>
       /\ outputPath = [d \in Dests |-> IF d = 1 THEN stem \o ext ELSE NameOf(d)]
       /\ extra \in SUBSET {stem \o Jxl, stem \o Av1Mp4, stem \o ext \o Jxl,
                            toLowerCase(stem \o ext)}
       /\ stem \o ext \notin extra
  /\ dest \in {[d \in Dests |-> NoFile], [d \in Dests |-> IF d = 1 THEN Old ELSE NoFile]}
  /\ temp = [d \in Dests |-> NoFile]
  /\ phase = "pass"
  /\ passNumber = 1
  /\ currentQueue = <<1>>
  /\ pending = <<>>
  /\ failedDownloads = <<>>
  /\ completedDownloads = 0
  /\ tasks = [t \in Tasks |-> IF t = 1 THEN NewTask("prepare") ELSE NewTask("none")]
  /\ zombies = {}
  /\ blacklist = {}
  /\ failureCounts = [p \in Paths |-> 0]
  /\ addedAtDates = [p \in Paths |-> NoDate]
  /\ bfile = {}
  /\ writes = {}
  /\ blAtBuild = {}

NextExists == \E t \in Tasks : Prepare(t)

SpecExists == InitExists /\ [][NextExists]_vars

\* p has an extension whose lower-case form is in exts, and the path made of
\* p without that extension followed by suffix exists
SiblingExists(p, disk, exts, suffix) ==
  \E n \in 1 .. Len(p) - 1 :
     /\ toLowerCase(SubSeq(p, n + 1, Len(p))) \in exts
     /\ p[n] # "/"
     /\ SubSeq(p, 1, n) \o suffix \in disk

Satisfied(p, disk) ==
  \/ p \in disk
  \/ SiblingExists(p, disk, {<<".", "j", "p", "g">>, <<".", "j", "p", "e", "g">>}, Jxl)
  \/ SiblingExists(p, disk, {<<".", "m", "p", "4">>, <<".", "m", "k", "v">>}, Av1Mp4)

E500 == [axios |-> TRUE, code |-> "ERR_BAD_RESPONSE", status |-> 500, timeoutMsg |-> FALSE]

\* a step in which downloadFile is invoked for t: by the queue, after the
\* inter-retry delay, or by the catch block once its blacklist write is done
InvokeStep(t) ==
  /\ tasks'[t] # tasks[t]
  /\ \/ tasks[t].pc \in {"queued", "wait"}
     \/ tasks[t].pc = "saving" /\ tasks[t].after = "enter"

\* C1 (blacklist gating): an invocation of downloadFile for a path that is in
\* ctx.blacklist at that moment ends as 'skipped' without selecting a proxy,
\* issuing a request or touching a file; an invocation passes the gate only
\* for a path that is not blacklisted, and requests are issued only past the
\* gate; a path blacklisted at queue-build time is never put into the queue.
C1_BlacklistGating ==
  /\ [](\A t \in Tasks : pathOf[t] \in blAtBuild => (tasks[t].pc = "none" /\ ~InQueue(t)))
  /\ [][\A t \in Tasks :
          /\ InvokeStep(t) =>
               IF pathOf[t] \in blacklist
               THEN /\ tasks'[t].pc = "resolved" /\ tasks'[t].msg = "skipped"
                    /\ ~tasks'[t].io /\ tasks'[t].sel = Null
                    /\ currentIndex' = currentIndex /\ entries' = entries
                    /\ temp' = temp /\ dest' = dest
               ELSE tasks'[t].pc = "prepare"
          /\ (tasks'[t].pc = "prepare" /\ tasks[t].pc # "prepare") => pathOf[t] \notin blacklist'
          /\ (tasks'[t].pc = "request" /\ tasks[t].pc # "request") => tasks[t].pc = "prepare"]_vars

\* one path was blacklisted before the queue was built and never queued, another
\* was blacklisted during the run and its next invocation was skipped
C1_Witness ==
  \E t, u \in Tasks :
    /\ tasks[t].pc = "resolved" /\ tasks[t].msg = "skipped" /\ pathOf[t] \in blacklist
    /\ pathOf[t] \notin blAtBuild
    /\ pathOf[u] \in blAtBuild /\ tasks[u].pc = "none"

\* C2 (HTTP 500 is terminal): when axios.get fails with status 500 the path is
\* in the blacklist afterwards, a save of the blacklist holds exactly one entry
\* for it, and the task makes no further attempt: it only waits for the
\* blacklist write and resolves, and is never queued again.
C2_Http500Terminal ==
  [][\A t \in Tasks :
       /\ Response(t, E500, FALSE) =>
            /\ pathOf[t] \in blacklist'
            /\ Cardinality({e \in saveBlacklist(blacklist', failureCounts', addedAtDates') :
                              e.filePath = pathOf[t]}) = 1
            /\ \/ tasks'[t].pc = "saving" /\ tasks'[t].after = "done500"
               \/ tasks'[t].pc = "resolved" /\ tasks'[t].msg = "blacklisted500"
       /\ (tasks[t].pc = "saving" /\ tasks[t].after = "done500") =>
            (tasks'[t] = tasks[t] \/ tasks'[t] = Resolved("blacklisted500", TRUE))
       /\ (tasks[t].pc = "resolved" /\ tasks[t].msg = "blacklisted500") =>
            /\ tasks'[t] = tasks[t]
            /\ pathOf[t] \in blacklist'
            /\ phase' \in {"between", "ceiling"} => ~InQueue(t)']_vars

\* a task ended on a 500 in the first pass, and the run is over with exactly
\* one entry for its path in blacklist.json
C2_Witness ==
  \E t \in Tasks :
    /\ tasks[t].pc = "resolved" /\ tasks[t].msg = "blacklisted500"
    /\ phase = "done" /\ passNumber = 1
    /\ Cardinality({e \in bfile : e.filePath = pathOf[t]}) = 1

\* C3 (retry ceiling): when the run is over, every task that was still failing
\* after the last pass is in the blacklist, and blacklist.json holds an entry
\* for its path with failureCount >= 5.
C3_RetryCeiling ==
  phase = "done" =>
    \A t \in Tasks :
      tasks[t].pc = "rejected" =>
        /\ pathOf[t] \in blacklist
        /\ \E e \in bfile : e.filePath = pathOf[t]
                            /\ e.failureCount >= MAX_FAILURES_BEFORE_BLACKLIST

\* C4 (atomic placement): a file this run created at an output path is the
\* complete content of an attempt; no partially written file is visible there.
C4_AtomicPlacement ==
  \A d \in Dests : dest[d] = NoFile \/ dest[d].owner = Prior \/ dest[d].content = "complete"

\* a live stream of task t
LiveFinish(t, o) == tasks[t].pc = "stream" /\ Finish(t, o)

\* the file stat sees at t's temp path differs in size from content-length
SizeDiffers(t) ==
  /\ tasks[t].hasLen
  /\ temp[destOf[t]] # NoFile
  /\ temp[destOf[t]].owner = StreamId(t, passNumber) \/ temp[destOf[t]].content # "complete"

\* C5 (integrity verification): when the writer finishes before the response
\* emitted 'end', or content-length was advertised and the temp file's size
\* differs from it, the temp file is deleted, one failure is recorded for the
\* path, nothing is put at the output path and the attempt rejects (after the
\* blacklist write, when the failure blacklisted the path).
C5_IntegrityVerification ==
  [][\A t \in Tasks :
       (LiveFinish(t, "premature") \/ (LiveFinish(t, "short") /\ SizeDiffers(t))) =>
         /\ temp'[destOf[t]] = NoFile
         /\ failureCounts'[pathOf[t]] >= MAX_FAILURES_BEFORE_BLACKLIST
              \/ failureCounts'[pathOf[t]] = failureCounts[pathOf[t]] + 1
         /\ dest'[destOf[t]].owner = dest[destOf[t]].owner
         /\ \/ tasks'[t].pc = "rejected"
            \/ tasks'[t].pc = "saving" /\ tasks'[t].after = "reject"]_vars

\* an attempt with fewer bytes than content-length was rejected: no temp file,
\* nothing at the output path, one failure on record
C5_Witness ==
  \E t \in Tasks :
    /\ tasks[t].pc = "rejected" /\ faults[t] = {"short"}
    /\ temp[destOf[t]] = NoFile /\ dest[destOf[t]] = NoFile
    /\ failureCounts[pathOf[t]] = 1

\* the stream that writes file f is still running
StreamRunning(f) ==
  \/ \E t \in Tasks : tasks[t].pc = "stream" /\ f.owner = StreamId(t, passNumber)
  \/ \E z \in zombies : z.st = "stream" /\ f.owner = StreamId(z.t, z.k)

\* C6 (partial-write cleanup): the sweep runs before the blacklist is loaded
\* and before any download, after it no temp file of an earlier run remains,
\* and a transfer that was interrupted leaves no file at its output path.
C6_PartialWriteCleanup ==
  /\ phase = "start" => (blacklist = {} /\ writes = {} /\ \A t \in Tasks : tasks[t].pc = "none")
  /\ phase # "start" => \A d \in Dests : temp[d].owner # Prior
  /\ \A d \in Dests : dest[d].content \in {"partial", "short"} => StreamRunning(dest[d])

\* C7 (bounded concurrency): the tasks whose downloadFile invocation has
\* started and not settled are never more than ctx.maxConcurrentDownloads, and
\* a queued task starts only when a slot is free.
C7_BoundedConcurrency ==
  /\ [](Cardinality(Running) <= maxConcurrentDownloads)
  /\ [][\A t \in Tasks :
          (tasks[t].pc = "queued" /\ tasks'[t].pc # "queued") =>
            Cardinality(Running) < maxConcurrentDownloads]_vars

\* the limit is one, a task is running and another one waits in the queue
C7_Witness ==
  /\ maxConcurrentDownloads = 1
  /\ Cardinality(Running) = 1
  /\ \E t \in Tasks : tasks[t].pc = "queued" /\ pending # <<>>

\* what an earlier run left in the output directory
PriorDisk == {outputPath[d] : d \in {x \in Dests : dest[x].owner = Prior}} \cup extra

\* every destination was satisfied before the run and no path is blacklisted
AllSatisfied ==
  /\ \A t \in Tasks : fileExistsOrCompressed(outputPath[destOf[t]], PriorDisk)
  /\ blacklist = {}
  /\ loadBlacklist(bfile).blacklist = {}

\* C12 (idempotence): in a run in which every task's destination is already
\* satisfied and no path is blacklisted, every task resolves through the
\* existence check: no proxy is selected, no request is issued, no file at
\* a destination is created or changed, nothing fails, and
\* downloadAllWithRetries ends after one pass with completed = total.
C12_Idempotence ==
  /\ [](AllSatisfied =>
          /\ \A t \in Tasks :
                /\ tasks[t].pc \in {"none", "queued", "prepare", "resolved"}
                /\ tasks[t].pc = "resolved" => tasks[t].msg = "exists"
                /\ ~tasks[t].io
                /\ tasks[t].sel = Null
          /\ currentIndex = 0
          /\ zombies = {}
          /\ failedDownloads = <<>>
          /\ passNumber <= 1
          /\ phase \in {"flush", "done"} =>
                /\ passNumber = 1
                /\ completedDownloads = NTasks
                /\ currentQueue = <<>>)
  /\ [][AllSatisfied => dest' = dest]_vars

\* the run is over: configured proxy, compressed sibling for the first
\* attachment, the file itself for the second
C12_Witness ==
  /\ AllSatisfied
  /\ phase = "done"
  /\ pmConfigured
  /\ dest[1] = NoFile
  /\ dest[2] = Old
  /\ \A t \in Tasks : tasks[t] = Resolved("exists", FALSE)
  /\ completedDownloads = NTasks

\* the entry was added more than 2 days before now
Older(e) == e.addedAt # NoDate /\ now - e.addedAt > BLACKLIST_EXPIRY_MS

\* downloadFile was invoked for t, whose failure count was 0 when the run
\* began, and went past the blacklist gate: t did not end as skipped, or
\* ended so after failed attempts of this run
Attempted(t) ==
  /\ tasks[t].pc \notin {"none", "queued"}
  /\ tasks[t].msg # "skipped" \/ failureCounts[pathOf[t]] > 0

\* C17 (blacklist expiry): loadBlacklist leaves out every persisted entry
\* added more than 2 days before the load (path not blacklisted, failure
\* count not restored) and keeps every younger entry; when an entry was
\* dropped it rewrites blacklist.json at once, and the file then holds the
\* kept entries only; a dropped path is enqueued and attempted in that run.
C17_BlacklistExpiry ==
  /\ [][LoadBlacklist =>
          /\ blacklist' = {e.filePath : e \in {x \in bfile : ~Older(x)}}
          /\ \A e \in bfile :
                IF Older(e)
                THEN failureCounts'[e.filePath] = 0 /\ addedAtDates'[e.filePath] = NoDate
                ELSE /\ failureCounts'[e.filePath] = e.failureCount
                     /\ addedAtDates'[e.filePath] = e.addedAt
          /\ IF \E e \in bfile : Older(e)
             THEN /\ phase' = "loadsave"
                  /\ writes' = {[by |-> Main, snap |-> {x \in bfile : ~Older(x)}]}
             ELSE phase' = "loaded" /\ writes' = writes]_vars
  /\ [][phase = "loadsave" /\ phase' # "loadsave" =>
          (phase' = "loaded" /\ bfile' = saveBlacklist(blacklist, failureCounts, addedAtDates)
           /\ \A e \in bfile' : ~Older(e))]_vars
  /\ \A t \in Tasks :
       []((phase = "swept" /\ \E e \in bfile : e.filePath = pathOf[t] /\ Older(e)) =>
            [](/\ phase = "pass" /\ passNumber = 1 => InQueue(t)
               /\ phase \in {"flush", "done"} => Attempted(t)))

\* the lapsed entry of the first path has been dropped, the entries that
\* are exactly 2 days old are kept, and the file is being rewritten
C17_Witness ==
  /\ phase = "loadsave"
  /\ \E e \in bfile : Older(e) /\ e.filePath = 1
  /\ blacklist = Others
  /\ writes # {}

\* C18 (failure threshold): recordFailure adds exactly 1 to the failure
\* count of its path and changes no other count; it puts the path into the
\* blacklist exactly when the count reaches 5, with the current time as
\* addedAt and a write of blacklist.json started at once; a path whose
\* failure count is 5 or more is always in the blacklist, and whenever a
\* path enters the blacklist during the run a write holding it is started.
C18_FailureThreshold ==
  /\ [](\A p \in Paths :
          LET r == recordFailure(Store, p)
          IN /\ r.failureCounts = [failureCounts EXCEPT ![p] = failureCounts[p] + 1]
             /\ (p \in r.blacklist /\ p \notin blacklist) <=> (failureCounts[p] + 1 = 5)
             /\ r.blacklist \ {p} = blacklist \ {p}
             /\ IF p \in r.blacklist /\ p \notin blacklist
                THEN r.addedAtDates = [addedAtDates EXCEPT ![p] = now] /\ r.saved
                ELSE r.addedAtDates = addedAtDates /\ ~r.saved)
  /\ [](\A p \in Paths : failureCounts[p] >= 5 => p \in blacklist)
  /\ [][\A p \in Paths :
          (phase # "swept" /\ p \in blacklist' /\ p \notin blacklist) =>
             /\ failureCounts'[p] = 5
             /\ addedAtDates'[p] = now
             /\ \E w \in writes' \ writes : \E e \in w.snap : e.filePath = p /\ e.addedAt = now]_vars
  /\ [][\A p \in Paths :
          (phase # "swept" /\ failureCounts'[p] # failureCounts[p]) =>
             \/ failureCounts'[p] = failureCounts[p] + 1
             \/ p \in blacklist' /\ p \notin blacklist]_vars

\* the fifth connection failure of the first path has put it into the blacklist
C18_Witness ==
  /\ faults[1] = {"conn"}
  /\ failureCounts[pathOf[1]] = 5
  /\ pathOf[1] \in blacklist
  /\ addedAtDates[pathOf[1]] = now
  /\ \E w \in writes : \E e \in w.snap : e.filePath = pathOf[1]

Count(seq, x) == Cardinality({i \in 1 .. Len(seq) : seq[i] = x})

\* C20 (failure isolation): in a pass every task of the submitted queue is
\* started exactly once, also after other tasks have rejected; a task is
\* listed in failedDownloads once if it rejected and not at all otherwise,
\* completedDownloads counts the resolved tasks, and when the pass resolves
\* every submitted task has resolved or rejected.
C20_FailureIsolation ==
  /\ [](phase = "pass" =>
          /\ \A t \in Tasks :
                Count(failedDownloads, t) = IF InQueue(t) /\ tasks[t].pc = "rejected" THEN 1 ELSE 0
          /\ completedDownloads = Cardinality({t \in Tasks : tasks[t].pc = "resolved"}))
  /\ [][EndPass => \A t \in Tasks : InQueue(t) => tasks[t].pc \in {"resolved", "rejected"}]_vars
  /\ [][\A t \in Tasks :
          Start(t) => (InQueue(t) /\ tasks[t].pc = "queued" /\ tasks'[t].pc # "queued")]_vars
  /\ [][\A t \in Tasks :
          (phase = "pass" /\ phase' = "pass" /\ tasks[t].pc # "queued") =>
             tasks'[t].pc # "queued"]_vars
  /\ [](phase = "pass" /\ pending # <<>> /\ Cardinality(Running) < maxConcurrentDownloads =>
          ENABLED Start(Head(pending)))

\* the first task has rejected and the second one, started after that, has
\* resolved
C20_Witness ==
  /\ phase = "pass"
  /\ maxConcurrentDownloads = 1
  /\ failedDownloads = <<1>>
  /\ tasks[1].pc = "rejected"
  /\ tasks[2].pc = "resolved"
  /\ tasks[2].msg = "downloaded"
  /\ completedDownloads = 1


\* C21 (end-of-run flush): once scrapeCreator's final saveBlacklist has
\* completed, blacklist.json holds exactly one entry for each path of
\* ctx.blacklist and no entry for any other path, whatever the order in which
\* the rewrites started during the run completed.
C21_EndOfRunFlush ==
  phase = "done" =>
    /\ {e.filePath : e \in bfile} = blacklist
    /\ \A p \in blacklist : Cardinality({e \in bfile : e.filePath = p}) = 1

\* the promise of task t's downloadFile call is settled
Settled(t) == tasks[t].pc \in {"resolved", "rejected"}

\* C22 (no worker slot is blocked forever): every started downloadFile call
\* eventually resolves or rejects, also when the stream outlasts the overall
\* timeout, stalls, or its handlers give up after a failed move of the temp
\* file; every pass of the pool ends, and downloadAllWithRetries returns, so
\* that scrapeCreator reaches its final save.
C22_NoBlockedSlot ==
  /\ \A t \in Tasks : (tasks[t].pc \in ActivePc) ~> Settled(t)
  /\ (phase = "pass") ~> (phase # "pass")
  /\ <>(phase = "done")

\* a task whose stream handlers gave up without settling the stream promise
\* was rejected by the overall timeout, and the pass has ended
C22_Witness ==
  \E t \in Tasks :
    /\ {"renamefail", "copyfail"} \subseteq faults[t]
    /\ tasks[t].pc = "rejected" /\ failureCounts[pathOf[t]] = 0
    /\ "torn" = dest[destOf[t]].content
    /\ phase = "between"

\* C23 (attempts of one task never overlap): while the response stream and the
\* file writer of an earlier attempt of a task are still open, no new attempt
\* of that task is running; in particular no two attempts of a task have an
\* open stream on the same temp file.
C23_SequentialAttempts ==
  \A z \in zombies :
    tasks[z.t].pc \notin {"prepare", "request", "stream", "copying", "hung"}

\* an attempt of t fails during streaming: stall or stream error, premature
\* end, or size mismatch
IntegrityFailure(t) ==
  \/ StreamFail(t)
  \/ LiveFinish(t, "premature")
  \/ LiveFinish(t, "short") /\ SizeDiffers(t)

\* C24 (integrity failures are retried like transport errors): when an attempt
\* fails during streaming and the task's retry count is below 3, the task goes
\* on within the same pass: it waits the inter-retry delay (after the
\* blacklist write, when the failure blacklisted the path) for another attempt
\* with the retry count incremented, and is not rejected.
C24_IntegrityRetry ==
  [][\A t \in Tasks :
       (IntegrityFailure(t) /\ tasks[t].retries < MAX_DOWNLOAD_RETRIES) =>
         /\ tasks'[t].pc \in {"wait", "saving"}
         /\ tasks'[t].pc = "saving" => tasks'[t].after = "wait"
         /\ tasks'[t].retries = tasks[t].retries + 1]_vars

EAccess == [axios |-> FALSE, code |-> "EACCES", status |-> 0, timeoutMsg |-> FALSE]

\* an attempt of t fails for a local reason: a non-Axios error reaches the
\* catch block, the writer emits 'error', or fs.rename and fs.copy both throw
LocalFailure(t) ==
  \/ Response(t, EAccess, FALSE)
  \/ StreamFail(t)
  \/ tasks[t].pc = "copying" /\ CopyEnd(t, FALSE)

\* C25 (local filesystem failures): when an attempt fails for a local reason,
\* exactly one failure is recorded for the path and the attempt rejects (after
\* the blacklist write, when the failure blacklisted the path); no further CDN
\* subdomain is tried.
C25_LocalFailure ==
  [][\A t \in Tasks :
       LocalFailure(t) =>
         /\ \/ failureCounts'[pathOf[t]] = failureCounts[pathOf[t]] + 1
            \/ failureCounts'[pathOf[t]] = MAX_FAILURES_BEFORE_BLACKLIST
                 /\ failureCounts[pathOf[t]] >= MAX_FAILURES_BEFORE_BLACKLIST
         /\ \/ tasks'[t].pc = "rejected"
            \/ tasks'[t].pc = "saving" /\ tasks'[t].after = "reject"]_vars

E404 == [axios |-> TRUE, code |-> "ERR_BAD_REQUEST", status |-> 404, timeoutMsg |-> FALSE]

\* C26 (CDN failover order): when a request fails with a retryable error at a
\* CDN subdomain, the next attempt follows at once, at the same retry count,
\* on the next host of the order subdomains[0], ..., subdomains[n-1], base
\* domain; the inter-retry wait comes only after the base domain was tried.
C26_FailoverOrder ==
  [][\A t \in Tasks :
       (Response(t, E404, FALSE) /\ downloadHost(tasks[t].cdn) # "base") =>
         /\ tasks'[t].pc = "prepare"
         /\ tasks'[t].retries = tasks[t].retries
         /\ tasks'[t].cdn = tasks[t].cdn + 1
         /\ tasks[t].cdn = Len(subdomains) - 1 => downloadHost(tasks'[t].cdn) = "base"]_vars

\* axios.get of t's attempt fails with a connection-level error
ConnectionFailure(t) ==
  \E e \in AxiosCodeErrors : e.code \in ConnectionCodes /\ Response(t, e, FALSE)

\* the task record once downloadFile(r, c) has been called for t, directly or
\* after the blacklist write the failure started
Invoked(t, r, c) ==
  \/ tasks'[t].pc = "prepare" /\ tasks'[t].retries = r /\ tasks'[t].cdn = c
  \/ tasks'[t].pc = "saving" /\ tasks'[t].after = "enter"
       /\ tasks'[t].retries = r /\ tasks'[t].cdn = c
  \/ tasks'[t].pc = "resolved" /\ tasks'[t].msg = "skipped" /\ pathOf[t] \in blacklist'

\* the task record once the inter-retry delay before downloadFile(r, 0) has
\* begun, directly or after the blacklist write
Delayed(t, r) ==
  /\ tasks'[t].pc \in {"wait", "saving"}
  /\ tasks'[t].pc = "saving" => tasks'[t].after = "wait"
  /\ tasks'[t].retries = r /\ tasks'[t].cdn = 0

\* the promise of t rejects, directly or after the blacklist write
Rejects(t) ==
  \/ tasks'[t].pc = "rejected"
  \/ tasks'[t].pc = "saving" /\ tasks'[t].after = "reject"

\* one more failure is on record for the path of t
CountedOnce(t) == failureCounts'[pathOf[t]] = failureCounts[pathOf[t]] + 1

\* C27 (connection-error policy): every attempt that fails with a
\* connection-level error adds one to the path's failure count; below the
\* retry ceiling the next call is made at once on the next CDN subdomain at
\* the same retry count when one remains, otherwise after the inter-retry
\* delay on subdomain 0 with the retry count incremented; at the ceiling the
\* task rejects and is listed as failed for the pass.
C27_ConnectionPolicy ==
  [][\A t \in Tasks :
       ConnectionFailure(t) =>
         /\ CountedOnce(t)
         /\ IF tasks[t].retries < MAX_DOWNLOAD_RETRIES
            THEN IF tasks[t].cdn < Len(subdomains) - 1
                 THEN Invoked(t, tasks[t].retries, tasks[t].cdn + 1)
                 ELSE Delayed(t, tasks[t].retries + 1)
            ELSE /\ Rejects(t)
                 /\ tasks'[t].pc = "rejected" =>
                      failedDownloads' = Append(failedDownloads, t)]_vars

\* with two subdomains a task met four connection errors, two per round, and
\* waits for its third round
C27_Witness ==
  \E t \in Tasks :
    /\ Len(subdomains) = 2
    /\ faults[t] = {"conn"}
    /\ failureCounts[pathOf[t]] = 4
    /\ tasks[t].pc = "wait" /\ tasks[t].retries = 2 /\ tasks[t].cdn = 0

\* axios.get of t's attempt fails with an HTTP error other than 500
HttpFailure(t) ==
  \E e \in AxiosStatusErrors : e.status # 500 /\ Response(t, e, FALSE)

\* t is the only queue entry of its path and the server refuses it with HTTP
\* errors only
HttpOnly(t) ==
  /\ faults[t] = {"http"}
  /\ \A u \in Tasks \ {t} : pathOf[u] # pathOf[t]

\* C28 (other-HTTP-error policy): an attempt that fails with an HTTP error
\* other than 500 records no failure while a CDN subdomain remains (the next
\* call follows at once at the same retry count) or the retry count is below
\* the ceiling (the next round starts at subdomain 0 after the inter-retry
\* delay, retry count incremented); at the ceiling one failure is recorded and
\* the task rejects.  A path that meets only such errors has one failure on
\* record per pass in which its task was rejected.
C28_HttpPolicy ==
  /\ [][\A t \in Tasks :
          HttpFailure(t) =>
            IF tasks[t].cdn < Len(subdomains) - 1
            THEN /\ Invoked(t, tasks[t].retries, tasks[t].cdn + 1)
                 /\ failureCounts' = failureCounts
            ELSE IF tasks[t].retries < MAX_DOWNLOAD_RETRIES
            THEN /\ Delayed(t, tasks[t].retries + 1)
                 /\ failureCounts' = failureCounts
            ELSE /\ CountedOnce(t)
                 /\ Rejects(t)]_vars
  /\ [](\A t \in Tasks :
          (HttpOnly(t) /\ phase \in {"pass", "between"}) =>
            /\ failureCounts[pathOf[t]] <= passNumber
            /\ tasks[t].pc = "rejected" => failureCounts[pathOf[t]] = passNumber
            /\ tasks[t].pc \in ActivePc => failureCounts[pathOf[t]] = passNumber - 1)

\* a task the server refused with HTTP errors only was rejected in the second
\* pass: two failures are on record for its path
C28_Witness ==
  \E t \in Tasks :
    /\ HttpOnly(t)
    /\ tasks[t].pc = "rejected" /\ passNumber = 2 /\ phase = "between"
    /\ failureCounts[pathOf[t]] = 2

\* the place of the pair (retries, cdnSubdomainIndex) in the lexicographic
\* order of {0 .. 3} x {0 .. n-1}
Rank(task) == task.retries * Len(subdomains) + task.cdn

\* the catch block of t's attempt has decided on another call of downloadFile
Retries(t) ==
  /\ tasks[t].pc = "request"
  /\ \/ tasks'[t].pc \in {"prepare", "wait"}
     \/ tasks'[t].pc = "saving" /\ tasks'[t].after \in {"enter", "wait"}

\* C29 (retry bounds): in every invocation of downloadFile the retry count is
\* within 0 .. 3 and the CDN index within 0 .. n-1; within a pass the pair
\* (retry count, CDN index) of a task changes only when an attempt has failed
\* and the catch block calls downloadFile again, and then it grows in the
\* lexicographic order.  The pairs of the requests of one pass are therefore
\* distinct elements of a set of 4*n.
C29_RetryBounds ==
  /\ [](\A t \in Tasks :
          /\ tasks[t].retries \in 0 .. MAX_DOWNLOAD_RETRIES
          /\ tasks[t].cdn \in 0 .. Len(subdomains) - 1
          /\ Rank(tasks[t]) < (MAX_DOWNLOAD_RETRIES + 1) * Len(subdomains))
  /\ [][\A t \in Tasks :
          /\ Retries(t) =>
               /\ Rank(tasks'[t]) > Rank(tasks[t])
               /\ \/ tasks'[t].retries > tasks[t].retries
                  \/ tasks'[t].retries = tasks[t].retries /\ tasks'[t].cdn > tasks[t].cdn
          /\ (tasks[t].pc \in ActivePc /\ tasks'[t].pc \in ActivePc /\ ~Retries(t)
              /\ ~(tasks[t].pc = "saving" /\ tasks[t].after \in {"reject", "done500"})
              /\ ~(tasks'[t].pc = "saving" /\ tasks'[t].after \in {"reject", "done500"})) =>
               Rank(tasks'[t]) = Rank(tasks[t])]_vars

\* with two subdomains a task issues the last request the bounds allow, at
\* retry count 3 on subdomain 1
C29_Witness ==
  \E t \in Tasks :
    /\ Len(subdomains) = 2
    /\ tasks[t].pc = "request"
    /\ tasks[t].retries = MAX_DOWNLOAD_RETRIES /\ tasks[t].cdn = 1

\* the entries of a queue
Entries(q) == {q[i] : i \in 1 .. Len(q)}

\* what the end of a pass and the start of the next one do
PassSteps ==
  /\ [](passNumber <= MAX_RETRY_PASSES)
  /\ [][/\ EndPass =>
             /\ Entries(currentQueue') =
                  {t \in Tasks : tasks[t].pc = "rejected" /\ InQueue(t)
                                 /\ pathOf[t] \notin blacklist}
             /\ phase' = "between" <=>
                  (currentQueue' # <<>> /\ passNumber < MAX_RETRY_PASSES)
        /\ StartPass =>
             /\ phase = "between" /\ passNumber < MAX_RETRY_PASSES
             /\ pending' = currentQueue /\ currentQueue # <<>>
             /\ \A t \in Entries(currentQueue) : tasks[t].pc = "rejected"
        /\ passNumber' # passNumber => (StartPass \/ BuildQueue)]_vars

\* C30 (orchestrator passes): downloadAllWithRetries runs at most 3 passes,
\* each after the first preceded by the inter-pass wait; a pass is followed by
\* another one only if it ended with a rejected task whose path is not
\* blacklisted, and the next pass resubmits exactly those tasks; a task that
\* resolved, or whose path is blacklisted, is not resubmitted.
C30_OrchestratorPasses ==
  /\ PassSteps
  /\ [][StartPass => \A t \in Entries(currentQueue) : pathOf[t] \notin blacklist]_vars

\* the attempt of t is aborted while its stream is open: by stall detection
\* (safeReject) or by the overall stream timeout
Aborted(t) ==
  /\ tasks[t].pc = "stream"
  /\ StreamFail(t) \/ Timeout(t)

\* C31 (cleanup on abort): when an attempt is aborted by stall detection or by
\* the overall stream timeout, its temp file is gone and its stream is closed
\* by the time the attempt rejects: the temp file does not exist and no stream
\* of that attempt is left running.
C31_CleanupOnAbort ==
  [][\A t \in Tasks :
       Aborted(t) =>
         /\ temp'[destOf[t]] = NoFile
         /\ \A z \in zombies' : ~(z.t = t /\ z.k = passNumber)
         /\ Rejects(t)]_vars

\* C32 (crash consistency of the blacklist file): whenever no write of
\* blacklist.json is in progress, the file holds an entry for every path of
\* the in-memory blacklist, whatever the order in which the rewrites started
\* by concurrent promotions completed.
C32_CrashConsistency ==
  writes = {} => blacklist \subseteq {e.filePath : e \in bfile}

\* request r selected a proxy that has been put on cooldown since: the
\* selection was made before the proxy's most recent failure report
SelectedBeforeFailure(r) ==
  /\ reqs[r].st = "flight"
  /\ reqs[r].sel # Null
  /\ entries[reqs[r].sel + 1].cooldownUntil > now

\* C33 (proxy health under concurrent requests): a success reported for a
\* request that selected its proxy before the proxy's most recent failure
\* report leaves the cooldown set by that failure as it is, so that
\* getNextProxy does not return the proxy before the cooldown has elapsed.
C33_StaleSuccess ==
  [][\A r \in ReqIds :
       (SelectedBeforeFailure(r) /\ EndRequest(r, NoError)) =>
         /\ entries'[reqs[r].sel + 1].cooldownUntil = entries[reqs[r].sel + 1].cooldownUntil
         /\ ~Available(entries'[reqs[r].sel + 1], now)]_vars

\* what C34 says of the entries and of the calls, the cursor's range apart
EntriesKept ==
  /\ [](\A i \in 1 .. size :
          (entries[i].consecutiveFailures = 0) <=> (entries[i].cooldownUntil = 0))
  /\ [][/\ Len(entries') = Len(entries)
        /\ \A id \in 0 .. size - 1 :
             CallReportFailure(id) =>
               /\ entries'[id + 1].cooldownUntil >= entries[id + 1].cooldownUntil
               /\ entries'[id + 1].consecutiveFailures = entries[id + 1].consecutiveFailures + 1
               /\ \A j \in 1 .. size : j # id + 1 => entries'[j] = entries[j]
        /\ CallGetNextProxy =>
             /\ entries' = entries /\ cooldownMs' = cooldownMs
             /\ lastSel' = Null => currentIndex' = currentIndex]_vars

\* C34 as stated (proxy entry invariant): the entries are those built at
\* construction, the rotation cursor is within 0 .. N-1, an entry has
\* consecutiveFailures = 0 exactly when its cooldownUntil = 0, consecutive
\* reportFailure calls never decrease cooldownUntil, and getNextProxy changes
\* nothing but the cursor, which it leaves alone when it returns null.
C34_AsStated ==
  /\ EntriesKept
  /\ [](pmConfigured => currentIndex \in 0 .. size - 1)

\* C34 (proxy entry invariant, amended): as stated, with the cursor within
\* 0 .. N-1 for a pool of N >= 1 proxies and 0 for an empty pool.
C34_ProxyInvariant ==
  /\ EntriesKept
  /\ [](pmConfigured => IF size = 0 THEN currentIndex = 0
                        ELSE currentIndex \in 0 .. size - 1)

\* in a full pool one proxy failed twice in a row, every proxy is cooling
\* down, and the latest getNextProxy call returned null after the cursor had
\* wrapped around
C34_Witness ==
  /\ pmConfigured /\ size = MaxProxies
  /\ \E i \in 1 .. size : entries[i].consecutiveFailures = 2 /\ entries[i].cooldownUntil > now
  /\ AllCooling
  /\ lastSel = Null /\ nCalls >= 2

\* downloadFile is called for t: by the queue, after the inter-retry delay,
\* or by the catch block, at once or after its blacklist write
Called(t) ==
  \/ InvokeStep(t)
  \/ tasks[t].pc = "request" /\ tasks'[t].pc \in {"prepare", "resolved"}
       /\ tasks'[t].msg \in {"", "skipped"}

\* C35 (blacklisting is final for the run): once loadBlacklist has run no
\* path leaves ctx.blacklist; every call of downloadFile made for a task
\* whose path is in the blacklist ends as skipped, without a proxy selection,
\* a request or a file operation.
C35_BlacklistFinal ==
  [][/\ phase \notin {"start", "swept"} => blacklist \subseteq blacklist'
     /\ \A t \in Tasks :
          (Called(t) /\ pathOf[t] \in blacklist') =>
            /\ tasks'[t].pc = "resolved" /\ tasks'[t].msg = "skipped"
            /\ tasks'[t].sel = Null
            /\ currentIndex' = currentIndex
            /\ dest' = dest]_vars

\* two paths were blacklisted one after the other during the run, and the
\* next call for the second one was skipped
C35_Witness ==
  \E t, u \in Tasks :
    /\ pathOf[t] # pathOf[u]
    /\ {pathOf[t], pathOf[u]} \subseteq blacklist \ blAtBuild
    /\ tasks[t].pc = "resolved" /\ tasks[t].msg = "skipped"
    /\ failureCounts[pathOf[t]] = MAX_FAILURES_BEFORE_BLACKLIST

\* C36 (the timestamp of the first blacklisting is preserved): every entry
\* saveBlacklist hands to fs.writeJson carries the addedAt the store holds
\* for its path; the store never changes the addedAt of a blacklisted path;
\* loadBlacklist takes the addedAt of every entry it keeps from the file; and
\* no write to blacklist.json changes the addedAt of an entry that has not
\* expired.
C36_AddedAtPreserved ==
  /\ [](\A w \in writes : \A e \in w.snap :
          e.addedAt # NoDate /\ e.addedAt = addedAtDates[e.filePath])
  /\ [][\A p \in blacklist : addedAtDates'[p] = addedAtDates[p]]_vars
  /\ [][LoadBlacklist => \A e \in Kept(bfile) : addedAtDates'[e.filePath] = e.addedAt]_vars
  /\ [][\A e \in bfile : \A f \in bfile' :
          (e.filePath = f.filePath /\ ~Expired(e)) => f.addedAt = e.addedAt]_vars

\* the run is over; blacklist.json, rewritten after a path was blacklisted
\* during the run, holds that path with the time of the run next to an entry
\* that was loaded on its last day and kept its timestamp
C36_Witness ==
  /\ phase = "done" /\ writes = {}
  /\ \E e \in bfile : e.addedAt = now - BLACKLIST_EXPIRY_MS
  /\ \E f \in bfile : f.addedAt = now /\ f.filePath \in blacklist \ blAtBuild

\* the ids of a fetched page
PageIds(fetchedPosts) == {fetchedPosts[i] : i \in DOMAIN fetchedPosts}

\* C37 (post deduplication): the collected list holds each id once, that is,
\* it is as long as the set of the ids seen so far; after a page was scanned,
\* the stopping page included, every id of the page is in the list, and no
\* post ever leaves the list.
C37_PostDedup ==
  /\ [][\A n \in PageLengths, d \in PageSeen :
          PageStep(n, d) =>
             /\ PageIds(Page(n, d)) \subseteq 1 .. posts'
             /\ posts' = Cardinality(seenPostIds \cup PageIds(Page(n, d)))]_vars
  /\ [][posts' >= posts]_vars

\* two full pages were collected, and the third page, 46 of whose 50 ids had
\* been seen before, stopped pagination and brought 4 more posts
C37_Witness ==
  /\ stop = "dupes"
  /\ pages = 3
  /\ posts = 2 * PAGE_SIZE + 4

\* C38 (host discovery is bounded): every probe of findWorkingApiHost either
\* ends the discovery or adds one to retries, which never exceeds 3, so that
\* at most 4 probes are sent; the discovery ends with the host cached or with
\* the 'no working host' error, and once the host is cached no probe is sent.
C38_DiscoveryBounded ==
  /\ [](probeRetries <= PROBE_MAX_RETRIES)
  /\ [][\A valid \in BOOLEAN, e \in PageErrors \cup {NoError} :
          ProbeHost(valid, e) =>
             \/ pgpc' = "get" /\ workingApiHost'
             \/ pgpc' = "over" /\ stop' = "nohost"
             \/ pgpc' = "probe" /\ probeRetries' = probeRetries + 1]_vars
  /\ [][workingApiHost => (workingApiHost' /\ pgpc' # "probe")]_vars

\* two different queue entries with the same output path
Twins(t, u) == t # u /\ destOf[t] = destOf[u]

\* C39 (one writer per destination): of two queue entries with the same
\* output path at most one at a time has a stream open on the temp file; no
\* attempt clears the temp path while the other entry's stream writes it; and
\* at most one of them puts a file at the output path in a pass.
C39_OneWriter ==
  /\ [](\A t, u \in Tasks :
          Twins(t, u) => ~(tasks[t].pc = "stream" /\ tasks[u].pc = "stream"))
  /\ [][\A t, u \in Tasks :
          (Twins(t, u) /\ tasks[t].pc = "prepare" /\ tasks'[t].pc = "request") =>
             ~(tasks[u].pc = "stream" /\ temp[destOf[u]].owner = StreamId(u, passNumber))]_vars
  /\ [](\A t, u \in Tasks :
          Twins(t, u) =>
            ~(/\ tasks[t].pc = "resolved" /\ tasks[t].msg = "downloaded"
              /\ tasks[u].pc = "resolved" /\ tasks[u].msg = "downloaded"))

\* the queue scrapeCreator handed to downloadAllWithRetries
Submitted == {t \in attached : pathOf[t] \notin blAtBuild}

\* downloadAllWithRetries has returned {completed: completedDownloads,
\* failed: currentQueue.length, total: the size of the submitted queue}
Returned == phase \in {"flush", "done"}

\* the tasks that rejected in their last pass and were not queued again
Dropped == {t \in Submitted : tasks[t].pc = "rejected" /\ ~InQueue(t)}

\* C40 (result accounting): a task is counted in completed when its promise
\* resolves, one at a time, and a resolved task is never run again; when
\* downloadAllWithRetries has returned, completed is the number of submitted
\* tasks that resolved, completed + failed <= total, the difference is the
\* number of tasks that rejected and were left out of the next queue, all of
\* them with a blacklisted path, and failed counts the tasks that were still
\* queued after the third pass, whose paths the ceiling has blacklisted.
C40_ResultAccounting ==
  /\ [](Returned =>
          /\ completedDownloads = Cardinality({t \in Submitted : tasks[t].pc = "resolved"})
          /\ completedDownloads + Len(currentQueue) <= Cardinality(Submitted)
          /\ Cardinality(Submitted) - completedDownloads - Len(currentQueue)
               = Cardinality(Dropped)
          /\ \A t \in Dropped : pathOf[t] \in blacklist
          /\ \A t \in Tasks : InQueue(t) => (pathOf[t] \in blacklist /\ tasks[t].pc = "rejected")
          /\ currentQueue # <<>> => passNumber = MAX_RETRY_PASSES)
  /\ [][\A t \in Tasks : tasks[t].pc = "resolved" => tasks'[t].pc = "resolved"]_vars
  /\ [][completedDownloads' # completedDownloads =>
          /\ completedDownloads' = completedDownloads + 1
          /\ \E t \in Submitted : tasks[t].pc # "resolved" /\ tasks'[t].pc = "resolved"]_vars

\* the run is over: of two submitted tasks one was downloaded and the other
\* one rejected after its path had been blacklisted, so that it is counted
\* neither as completed nor as failed
C40_Witness ==
  /\ phase = "done"
  /\ Cardinality(Submitted) = 2
  /\ completedDownloads = 1 /\ currentQueue = <<>>
  /\ \E t \in Dropped : failureCounts[pathOf[t]] = MAX_FAILURES_BEFORE_BLACKLIST
  /\ \E u \in Submitted : tasks[u].pc = "resolved" /\ tasks[u].msg = "downloaded"
=============================================================================
